---------------------------- MODULE Spec2Model ----------------------------
(***************************************************************************)
(* A model of the OMR detection-and-scoring pipeline of rust-src:          *)
(*   evaluation.rs        EvaluationEngine (scoring, reports, batches)     *)
(*   bubble_detection.rs  BubbleDetector (template-guided detection)       *)
(*   template.rs          OmrTemplate (load, validate, field lookup)       *)
(*   lib.rs               OmrConfig::execute (the per-run driver)          *)
(*                                                                         *)
(* Numbers.  f64 scores are fixed-point integers in hundredths (1.0 is     *)
(* 100, -0.25 is -25).  A percentage is an exact fraction [num, den] in    *)
(* lowest terms, so 50.0 is [num |-> 50, den |-> 1].  Pixel intensities    *)
(* are 0..255 and the 0.6 selection threshold is compared exactly, as an   *)
(* inequality between integers.                                            *)
(***************************************************************************)
EXTENDS Integers, Sequences, FiniteSets, TLC

VARIABLES
    \* ---- evaluation.rs
    scoring_config,     \* EvaluationEngine.scoring_config
    answer_key,         \* the answer key handed to evaluate_*
    processed_files,    \* the ProcessedFile list handed to evaluate_*
    report,             \* the last EvaluationReport returned, or None
    batch_report,       \* the last BatchEvaluationReport returned, or None
    \* ---- bubble_detection.rs: one call of detect_bubbles_with_template
    template,           \* the OmrTemplate (loaded, hence validated)
    image,              \* the grayscale working image
    field_responses,    \* per field block: None, or what its parallel task returned
    completed,          \* the block indices in the order their tasks finished
    responses,          \* the Vec<BubbleResponse> returned, or None
    \* ---- lib.rs: one call of OmrConfig::execute
    template_doc,       \* the document at template_path, or None (no path given)
    input_files,        \* the entries of the input directory, in walk order
    auto_align,         \* OmrConfig.auto_align
    pc,                 \* where execute stands
    image_files,        \* the paths find_image_files returned
    task_results,       \* per image file: None, or what its parallel task returned
    task_order,         \* the file indices in the order their tasks finished
    saved_error,        \* the first Err the parallel collect saw, or None
    output,             \* the output directory: created?, results.csv, results.json
    result,             \* what execute returned, or None
    \* ---- bubble_detection.rs: one call of analyze_bubble_marking
    marked_region,      \* the region handed to analyze_bubble_marking
    mark_confidence,    \* the confidence it returned, or None
    \* ---- bubble_detection.rs: one call of extract_bubble_region
    geometry,           \* the sizes and positions handed to extract_bubble_region
    extracted,          \* the rectangle it read, or its panic, or None
    \* ---- bubble_detection.rs: one call of BubbleRegion::is_likely_bubble
    bubble_candidate,   \* the BubbleRegion it is called on
    likely_bubble,      \* what it returned, or None
    \* ---- bubble_detection.rs: one call of calculate_otsu_threshold
    gray_image,         \* the image it is called on
    otsu_threshold,     \* what it returned, or None
    \* ---- bubble_detection.rs: calls of detect_bubbles_auto on one image
    scanned_image,      \* the image
    auto_responses,     \* the Vec<BubbleResponse> of each call so far
    \* ---- alignment.rs: one call of find_template_match
    search_image,       \* the image searched
    template_region,    \* (template_x, template_y, template_w, template_h)
    best_offset,        \* what it returned, or None
    \* ---- alignment.rs: one call of calculate_normalized_correlation
    ncc_value,          \* what it returned for the template at its own place
    \* ---- evaluation.rs: one call of generate_statistics
    stat_reports,       \* the reports handed to generate_statistics
    statistics,         \* the DetailedStatistics it returned, or None
    \* ---- evaluation.rs: one call of load_answer_key
    key_file,           \* the answer key file: its extension and its table
    loaded_key,         \* what load_answer_key returned, or None
    \* ---- alignment.rs: one call of find_contours or of trace_contour
    called,             \* the function called: find_contours or trace_contour
    binary,             \* the binary mask
    phase,              \* scan (the for loops), trace (the while loop), returned
    scan_pos,           \* the row-major number of the pixel the for loops are at
    visited,            \* the pixels whose visited flag is set
    stack,              \* the stack of trace_contour
    contour,            \* the contour trace_contour is building or returned
    contours,           \* the contours find_contours has kept
    \* ---- alignment.rs: one call of auto_align_using_edges
    align_input,        \* the image handed to auto_align_using_edges
    aligned,            \* what the call gave, or None
    \* ---- web_main.rs: the job table and the handlers and tasks using it
    jobs,               \* AppState.jobs: job id -> ProcessingJob
    job_lock,           \* who holds the mutex of the table, or None
    start_pc,           \* per job id: where the start_processing that makes it stands
    task_pc,            \* per job id: where its process_omr_job stands
    run_result,         \* per job id: what its OMR run gave, or None
    query_pc,           \* where the get_job_status in progress stands
    query_job,          \* the job id it was asked for
    queries_made,       \* the number of get_job_status calls so far
    observed,           \* per job id: the status the last query for it saw
    last_answer,        \* the last response of get_job_status
    responded           \* the job ids start_processing has returned

evalVars == <<scoring_config, answer_key, processed_files, report, batch_report>>
detectVars == <<template, image, field_responses, completed, responses>>
runVars == <<template_doc, input_files, auto_align, pc, image_files, task_results,
             task_order, saved_error, output, result>>
markVars == <<marked_region, mark_confidence>>
extractVars == <<geometry, extracted>>
candidateVars == <<bubble_candidate, likely_bubble>>
otsuVars == <<gray_image, otsu_threshold>>
autoVars == <<scanned_image, auto_responses>>
matchVars == <<search_image, template_region, best_offset, ncc_value>>
statVars == <<stat_reports, statistics>>
keyVars == <<key_file, loaded_key>>
contourVars == <<called, binary, phase, scan_pos, visited, stack, contour, contours>>
alignVars == <<align_input, aligned>>
webVars == <<jobs, job_lock, start_pc, task_pc, run_result, query_pc, query_job,
            queries_made, observed, last_answer, responded>>
lateVars == <<statVars, keyVars, contourVars, alignVars, webVars>>
algoVars == <<markVars, extractVars, candidateVars, otsuVars, autoVars, matchVars,
              lateVars>>
earlyVars == <<evalVars, detectVars, runVars, markVars, extractVars, candidateVars,
               otsuVars, autoVars, matchVars>>
vars == <<evalVars, detectVars, runVars, algoVars>>

\* Option::None, as a record so that it compares with the records it stands for.
None == [none |-> TRUE]

--------------------------------------------------------------------------
(* Generic helpers *)

Range(s) == {s[i] : i \in 1..Len(s)}

\* All sequences over S of length 0..n.
SeqsUpTo(S, n) == UNION {[1..k -> S] : k \in 0..n}

\* s[lo] + ... + s[hi], by halves.
RECURSIVE SumRange(_, _, _)
SumRange(s, lo, hi) ==
    IF lo > hi THEN 0
    ELSE IF lo = hi THEN s[lo]
    ELSE LET mid == (lo + hi) \div 2
         IN  SumRange(s, lo, mid) + SumRange(s, mid + 1, hi)

SumSeq(s) == SumRange(s, 1, Len(s))

RECURSIVE Gcd(_, _)
Gcd(a, b) == IF b = 0 THEN a ELSE Gcd(b, a % b)

\* The exact value n/d (n >= 0, d > 0) in lowest terms.
Frac(n, d) == LET g == Gcd(n, d) IN [num |-> n \div g, den |-> d \div g]

Zero == Frac(0, 1)


--------------------------------------------------------------------------
(* evaluation.rs: data *)

\* ScoringConfig::default (no custom variants).
DefaultCorrect == 100
DefaultIncorrect == -25
DefaultUnmarked == 0

default_scoring_config ==
    [default_correct |-> DefaultCorrect,
     default_incorrect |-> DefaultIncorrect,
     default_unmarked |-> DefaultUnmarked,
     custom_variants |-> <<>>]

\* HashMap::get on a map modelled as a function over its keys.
contains_key(map, k) == k \in DOMAIN map

\* Vec::contains
contains(s, v) == \E i \in 1..Len(s) : s[i] = v

--------------------------------------------------------------------------
(* evaluation.rs: EvaluationEngine *)

\* answer_key.get(field_label).cloned().unwrap_or_else(Vec::new)
correct_answers_for(key, field_label) ==
    IF contains_key(key, field_label) THEN key[field_label] ELSE <<>>

\* A slip that keeps only one direction of the containment test.
is_correct_one_sided(bubble_response, correct_answers) ==
    IF bubble_response.is_multi_marked THEN FALSE
    ELSE IF bubble_response.detected_values = <<>> THEN correct_answers = <<>>
    ELSE \A i \in 1..Len(bubble_response.detected_values) :
            contains(correct_answers, bubble_response.detected_values[i])

\* The is_correct decision of evaluate_single_field.
is_correct_decision(bubble_response, correct_answers) ==
    LET detected_values == bubble_response.detected_values IN
    IF bubble_response.is_multi_marked THEN FALSE
    ELSE IF detected_values = <<>> THEN correct_answers = <<>>
    ELSE /\ \A i \in 1..Len(detected_values) :
                contains(correct_answers, detected_values[i])
         /\ \A i \in 1..Len(correct_answers) :
                contains(detected_values, correct_answers[i])

\* A slip that tests emptiness after correctness, so that a correct blank
\* earns the correct score.
calculate_score_blank_last(cfg, field_label, detected_values, is_correct, is_multi_marked) ==
    LET has_variant == contains_key(cfg.custom_variants, field_label)
        v == cfg.custom_variants[field_label]
    IN  IF is_multi_marked
        THEN IF has_variant THEN v.incorrect ELSE cfg.default_incorrect
        ELSE IF is_correct
        THEN IF has_variant THEN v.correct ELSE cfg.default_correct
        ELSE IF detected_values = <<>>
        THEN IF has_variant THEN v.unmarked ELSE cfg.default_unmarked
        ELSE IF has_variant THEN v.incorrect ELSE cfg.default_incorrect

calculate_score(cfg, field_label, detected_values, is_correct, is_multi_marked) ==
    LET has_variant == contains_key(cfg.custom_variants, field_label)
        v == cfg.custom_variants[field_label]
    IN  IF is_multi_marked
        THEN IF has_variant THEN v.incorrect ELSE cfg.default_incorrect
        ELSE IF detected_values = <<>>
        THEN IF has_variant THEN v.unmarked ELSE cfg.default_unmarked
        ELSE IF is_correct
        THEN IF has_variant THEN v.correct ELSE cfg.default_correct
        ELSE IF has_variant THEN v.incorrect ELSE cfg.default_incorrect

\* The feedback text as its parts; a joined list is kept as the list.
generate_feedback(detected_values, correct_answers, is_correct, is_multi_marked) ==
    IF is_multi_marked
    THEN <<"Multi-marked: ", detected_values, " (Correct: ", correct_answers, ")">>
    ELSE IF detected_values = <<>>
    THEN IF correct_answers = <<>>
         THEN <<"Correctly left blank">>
         ELSE <<"Left blank (Correct: ", correct_answers, ")">>
    ELSE IF is_correct
    THEN <<"Correct: ", detected_values>>
    ELSE <<"Incorrect: ", detected_values, " (Correct: ", correct_answers, ")">>

evaluate_single_field(cfg, bubble_response, key) ==
    LET field_label == bubble_response.field_label
        detected_values == bubble_response.detected_values
        correct_answers == correct_answers_for(key, field_label)
        is_correct == is_correct_decision(bubble_response, correct_answers)
    IN  [field_label |-> field_label,
         detected_values |-> detected_values,
         correct_answers |-> correct_answers,
         is_correct |-> is_correct,
         score |-> calculate_score(cfg, field_label, detected_values,
                                   is_correct, bubble_response.is_multi_marked),
         confidence |-> bubble_response.confidence,
         feedback |-> generate_feedback(detected_values, correct_answers,
                                        is_correct, bubble_response.is_multi_marked)]

\* A "repair" of the asymmetry: the maximum follows the field's variant.
max_score_step_variant(cfg, bubble_response) ==
    IF contains_key(cfg.custom_variants, bubble_response.field_label)
    THEN cfg.custom_variants[bubble_response.field_label].correct
    ELSE cfg.default_correct

\* What one response adds to max_possible_score.
max_score_step(cfg, bubble_response) == cfg.default_correct

\* A slip that guards the division with "not 0" and forgets the clamp's sign.
percentage_nonzero_guard(total_score, max_possible_score) ==
    IF max_possible_score # 0
    THEN IF total_score * max_possible_score <= 0 THEN Zero
         ELSE IF max_possible_score > 0
              THEN Frac(total_score * 100, max_possible_score)
              ELSE Frac((0 - total_score) * 100, 0 - max_possible_score)
    ELSE Zero

\* if max > 0.0 { (total / max * 100.0).max(0.0) } else { 0.0 }
percentage_of(total_score, max_possible_score) ==
    IF max_possible_score > 0
    THEN IF total_score < 0 THEN Zero
         ELSE Frac(total_score * 100, max_possible_score)
    ELSE Zero

\* The accumulators of the loop over detected_bubbles, after n responses.
RECURSIVE evaluate_loop(_, _, _, _)
evaluate_loop(cfg, bubbles, key, n) ==
    IF n = 0
    THEN [field_results |-> <<>>, total_score |-> 0,
          max_possible_score |-> 0, multi_marked_fields |-> <<>>]
    ELSE LET acc == evaluate_loop(cfg, bubbles, key, n - 1)
             bubble_response == bubbles[n]
             evaluation_result == evaluate_single_field(cfg, bubble_response, key)
         IN  [field_results |-> Append(acc.field_results, evaluation_result),
              total_score |-> acc.total_score + evaluation_result.score,
              max_possible_score |->
                  acc.max_possible_score + max_score_step(cfg, bubble_response),
              multi_marked_fields |->
                  IF bubble_response.is_multi_marked
                  THEN Append(acc.multi_marked_fields, bubble_response.field_label)
                  ELSE acc.multi_marked_fields]

\* A slip that reports total / max x 100 as it is, with its sign.
evaluate_responses_unclamped(cfg, processed_file, key) ==
    LET acc == evaluate_loop(cfg, processed_file.detected_bubbles, key,
                             Len(processed_file.detected_bubbles))
    IN  [file_path |-> processed_file.file_path,
         total_score |-> acc.total_score,
         max_possible_score |-> acc.max_possible_score,
         percentage |-> IF acc.max_possible_score > 0
                        THEN [num |-> acc.total_score, den |-> acc.max_possible_score]
                        ELSE Zero,
         field_results |-> acc.field_results,
         multi_marked_fields |-> acc.multi_marked_fields]

evaluate_responses(cfg, processed_file, key) ==
    LET acc == evaluate_loop(cfg, processed_file.detected_bubbles, key,
                             Len(processed_file.detected_bubbles))
    IN  [file_path |-> processed_file.file_path,
         total_score |-> acc.total_score,
         max_possible_score |-> acc.max_possible_score,
         percentage |-> percentage_of(acc.total_score, acc.max_possible_score),
         field_results |-> acc.field_results,
         multi_marked_fields |-> acc.multi_marked_fields]

\* A slip that counts multi-marked fields instead of files.
count_multi_marks_fields(rep) == Len(rep.multi_marked_fields)

\* What one report adds to files_with_multi_marks.
count_multi_marks(rep) == IF rep.multi_marked_fields # <<>> THEN 1 ELSE 0

\* The accumulators of the loop over processed_files, after n files.
RECURSIVE batch_loop(_, _, _, _)
batch_loop(cfg, files, key, n) ==
    IF n = 0
    THEN [individual_reports |-> <<>>, total_files |-> 0,
          files_with_multi_marks |-> 0,
          overall_score_sum |-> 0, overall_max_score_sum |-> 0]
    ELSE LET acc == batch_loop(cfg, files, key, n - 1)
             rep == evaluate_responses(cfg, files[n], key)
         IN  [individual_reports |-> Append(acc.individual_reports, rep),
              total_files |-> acc.total_files + 1,
              files_with_multi_marks |->
                  acc.files_with_multi_marks + count_multi_marks(rep),
              overall_score_sum |-> acc.overall_score_sum + rep.total_score,
              overall_max_score_sum |->
                  acc.overall_max_score_sum + rep.max_possible_score]

\* A slip that forgets the .max(0.0) clamp.
average_percentage_unclamped(overall_score_sum, overall_max_score_sum) ==
    IF overall_max_score_sum > 0
    THEN Frac(overall_score_sum * 100, overall_max_score_sum)
    ELSE Zero

\* if sum_max > 0.0 { (sum / sum_max * 100.0).max(0.0) } else { 0.0 }
average_percentage_of(overall_score_sum, overall_max_score_sum) ==
    IF overall_max_score_sum > 0
    THEN IF overall_score_sum < 0 THEN Zero
         ELSE Frac(overall_score_sum * 100, overall_max_score_sum)
    ELSE Zero

evaluate_batch(cfg, files, key) ==
    LET acc == batch_loop(cfg, files, key, Len(files))
    IN  [total_files |-> acc.total_files,
         files_with_multi_marks |-> acc.files_with_multi_marks,
         average_percentage |->
             average_percentage_of(acc.overall_score_sum, acc.overall_max_score_sum),
         total_score |-> acc.overall_score_sum,
         max_possible_score |-> acc.overall_max_score_sum,
         individual_reports |-> acc.individual_reports]

--------------------------------------------------------------------------
(* template.rs: OmrTemplate lookups *)

Min(a, b) == IF a <= b THEN a ELSE b

\* u32::saturating_sub
saturating_sub(a, b) == IF a >= b THEN a - b ELSE 0

\* field_blocks.iter().find(|block| block.field_label == label): the first
\* block with that label, or None.
get_field_block(tmpl, label) ==
    LET hits == {i \in 1..Len(tmpl.field_blocks) :
                    tmpl.field_blocks[i].field_label = label}
    IN  IF hits = {} THEN None
        ELSE tmpl.field_blocks[CHOOSE i \in hits : \A j \in hits : i <= j]

is_multi_choice_field(tmpl, field_label) ==
    LET field_block == get_field_block(tmpl, field_label)
    IN  IF field_block # None
        THEN field_block.field_type = "MultipleChoice"
        ELSE FALSE

--------------------------------------------------------------------------
(* bubble_detection.rs: template-guided detection *)

\* How the paper under one mark can look: blank (255 or 128), filled (0 or
\* 127), or filled on its left half only over a grey right half (200).
Shades == {"white", "pale", "black", "dim", "half"}

\* The intensity a shade gives the pixel in column dx of a mark.
ShadeAt(shade, dx) ==
    CASE shade = "white" -> 255
      [] shade = "pale" -> 128
      [] shade = "black" -> 0
      [] shade = "dim" -> 127
      [] shade = "half" -> IF dx < 16 THEN 0 ELSE 200

\* The content of an ImageBuffer at (x, y), inside the image.  A small image
\* is held pixel by pixel, row after row; a large one as paper of one
\* intensity with disjoint shaded rectangles (marks) on it.
pixel_at(img, x, y) ==
    IF "pixels" \in DOMAIN img
    THEN img.pixels[y * img.width + x + 1]
    ELSE LET hits == {m \in 1..Len(img.marks) :
                         /\ x >= img.marks[m].x
                         /\ x < img.marks[m].x + img.marks[m].width
                         /\ y >= img.marks[m].y
                         /\ y < img.marks[m].y + img.marks[m].height}
         IN  IF hits = {} THEN img.paper
             ELSE LET m == CHOOSE h \in hits : TRUE
                  IN  ShadeAt(img.marks[m].shade, x - img.marks[m].x)

\* image.get_pixel_checked(x, y): the intensity, or None outside the image.
get_pixel_checked(img, x, y) ==
    IF x < img.width /\ y < img.height
    THEN [Some |-> pixel_at(img, x, y)]
    ELSE None

\* u32 values.  The checker's integers have 32 bits with a sign, so a u32
\* is modelled with 30 bits: sums of two values stay representable and the
\* wrap-around happens at U32Modulus as it does at 2^32.
U32Modulus == 2 ^ 30
U32Max == U32Modulus - 1

\* a + b on u32 in a build without overflow checks (release): it wraps.
wrapping_add(a, b) == (a + b) % U32Modulus

\* Whether a + b on u32 overflows; a build with overflow checks (debug)
\* panics there.
add_overflows(a, b) == a + b > U32Max

\* The rectangle extract_bubble_region reads, from the sizes of the image
\* and the bubble, the origin of the field block and the position of the
\* bubble; every + is the u32 addition of a build without overflow checks.
bubble_rect(img_width, img_height, origin, position, bubble_width, bubble_height) ==
    LET abs_x == wrapping_add(origin[1], position[1])
        abs_y == wrapping_add(origin[2], position[2])
        start_x == Min(abs_x, saturating_sub(img_width, bubble_width))
        start_y == Min(abs_y, saturating_sub(img_height, bubble_height))
        end_x == Min(wrapping_add(start_x, bubble_width), img_width)
        end_y == Min(wrapping_add(start_y, bubble_height), img_height)
    IN  [start_x |-> start_x, start_y |-> start_y, end_x |-> end_x, end_y |-> end_y]

\* Whether one of the additions of bubble_rect overflows.
bubble_rect_overflows(img_width, img_height, origin, position, bubble_width, bubble_height) ==
    LET rect == bubble_rect(img_width, img_height, origin, position,
                            bubble_width, bubble_height)
    IN  \/ add_overflows(origin[1], position[1])
        \/ add_overflows(origin[2], position[2])
        \/ add_overflows(rect.start_x, bubble_width)
        \/ add_overflows(rect.start_y, bubble_height)

extract_bubble_region(img, field_block, bubble, tmpl) ==
    LET rect == bubble_rect(img.width, img.height, field_block.origin, bubble.position,
                            tmpl.bubble_dimensions.width, tmpl.bubble_dimensions.height)
        start_x == rect.start_x
        start_y == rect.start_y
        w == rect.end_x - rect.start_x
        h == rect.end_y - rect.start_y
    IN  [width |-> w, height |-> h,
         pixels |-> [k \in 1..(w * h) |->
                       LET pixel == get_pixel_checked(img, start_x + ((k - 1) % w),
                                                      start_y + ((k - 1) \div w))
                       IN  IF pixel # None THEN pixel.Some ELSE 0]]

\* The intensity below which a pixel counts as dark.
DarkThreshold == 128

\* A slip that drops the test for an empty region: 0/0 is NaN, and
\* NaN.min(1.0) is 1.0.
analyze_bubble_marking_unguarded(bubble_region) ==
    LET total_pixels == bubble_region.width * bubble_region.height
        dark_pixels == Cardinality({k \in 1..total_pixels :
                            bubble_region.pixels[k] < 128})
        total_intensity == SumSeq(bubble_region.pixels)
    IN  IF total_pixels = 0 THEN Frac(1, 1)
        ELSE Frac(7 * 255 * dark_pixels + 3 * (255 * total_pixels - total_intensity),
                  2550 * total_pixels)

\* 0.7 * dark/n + 0.3 * (255 - sum/n)/255, as the exact fraction
\* (7*255*dark + 3*(255*n - sum)) / (2550*n); it never exceeds 1, so the
\* final .min(1.0) changes nothing.
analyze_bubble_marking(bubble_region) ==
    IF bubble_region.width = 0 \/ bubble_region.height = 0
    THEN Zero
    ELSE LET total_pixels == bubble_region.width * bubble_region.height
             dark_pixels == Cardinality({k \in 1..total_pixels :
                                 bubble_region.pixels[k] < DarkThreshold})
             total_intensity == SumSeq(bubble_region.pixels)
         IN  Frac(7 * 255 * dark_pixels + 3 * (255 * total_pixels - total_intensity),
                  2550 * total_pixels)

\* A slip that selects with the threshold of auto-detection, 0.5.
is_marked_at_half(confidence) == confidence.num * 2 > confidence.den

\* confidence > 0.6
is_marked(confidence) == confidence.num * 5 > 3 * confidence.den

FracAdd(a, b) == Frac(a.num * b.den + b.num * a.den, a.den * b.den)

RECURSIVE FracSum(_)
FracSum(s) == IF s = <<>> THEN Zero ELSE FracAdd(s[1], FracSum(Tail(s)))

\* The per-bubble confidences of a field block, in bubble order.
bubble_confidences(img, field_block, tmpl) ==
    [b \in 1..Len(field_block.bubbles) |->
        analyze_bubble_marking(
            extract_bubble_region(img, field_block, field_block.bubbles[b], tmpl))]

RECURSIVE marked_values(_, _, _)
marked_values(bubbles, confidences, n) ==
    IF n = 0 THEN <<>>
    ELSE IF is_marked(confidences[n])
         THEN Append(marked_values(bubbles, confidences, n - 1), bubbles[n].value)
         ELSE marked_values(bubbles, confidences, n - 1)

\* detected_values.len() > 1 && !template.is_multi_choice_field(label)
multi_mark_check(detected_values, field_block, tmpl) ==
    Len(detected_values) > 1 /\ ~is_multi_choice_field(tmpl, field_block.field_label)

\* A slip that reports nothing for a field in which no bubble is marked.
process_field_block_skip_blank(img, field_block, tmpl) ==
    LET confidences == bubble_confidences(img, field_block, tmpl)
        detected_values ==
            marked_values(field_block.bubbles, confidences, Len(confidences))
    IN  IF detected_values = <<>> THEN [Ok |-> <<>>]
        ELSE [Ok |-> <<[field_label |-> field_block.field_label,
                detected_values |-> detected_values,
                confidence |-> Frac(FracSum(confidences).num,
                                    FracSum(confidences).den * Len(confidences)),
                is_multi_marked |->
                    multi_mark_check(detected_values, field_block, tmpl)]>>]

\* The response of a field block whose bubbles have these confidences.
field_response(field_block, tmpl, confidences) ==
    LET detected_values ==
            marked_values(field_block.bubbles, confidences, Len(confidences))
        avg_confidence ==
            IF confidences = <<>> THEN Zero
            ELSE Frac(FracSum(confidences).num,
                      FracSum(confidences).den * Len(confidences))
    IN  [field_label |-> field_block.field_label,
         detected_values |-> detected_values,
         confidence |-> avg_confidence,
         is_multi_marked |-> multi_mark_check(detected_values, field_block, tmpl)]

\* What the task of one field block returns: Ok(a Vec of one response).
process_field_block(img, field_block, tmpl) ==
    [Ok |-> <<field_response(field_block, tmpl,
                             bubble_confidences(img, field_block, tmpl))>>]

RECURSIVE Flatten(_)
Flatten(vecs) == IF vecs = <<>> THEN <<>> ELSE vecs[1] \o Flatten(Tail(vecs))

\* A collection that keeps the results in the order the tasks finished.
collect_by_completion(results, order) ==
    [Ok |-> Flatten([k \in 1..Len(order) |-> results[order[k]].Ok])]

\* par_iter().map(..).collect::<Result<Vec<_>>>() then extend(flatten):
\* the results of the tasks in the order of the field blocks.
collect_responses(results, order) ==
    [Ok |-> Flatten([i \in 1..Len(results) |-> results[i].Ok])]

--------------------------------------------------------------------------
(* template.rs: OmrTemplate::load; lib.rs: OmrConfig::execute *)

\* A slip that forgets the test for a field block without bubbles.
validate_skips_bubbles(doc) ==
    IF doc.bubble_dimensions.width = 0 \/ doc.bubble_dimensions.height = 0
    THEN [Err |-> "Bubble dimensions must be positive"]
    ELSE IF doc.page_dimensions[1] = 0 \/ doc.page_dimensions[2] = 0
    THEN [Err |-> "Page dimensions must be positive"]
    ELSE IF \E i \in 1..Len(doc.field_blocks) : doc.field_blocks[i].field_label = ""
    THEN [Err |-> "Field label cannot be empty"]
    ELSE [Ok |-> TRUE]

\* OmrTemplate::validate: the error of the first test that fails (the
\* field blocks are tested in order, label before bubbles), or Ok.
validate(doc) ==
    IF doc.bubble_dimensions.width = 0 \/ doc.bubble_dimensions.height = 0
    THEN [Err |-> "Bubble dimensions must be positive"]
    ELSE IF doc.page_dimensions[1] = 0 \/ doc.page_dimensions[2] = 0
    THEN [Err |-> "Page dimensions must be positive"]
    ELSE LET bad == {i \in 1..Len(doc.field_blocks) :
                        \/ doc.field_blocks[i].field_label = ""
                        \/ doc.field_blocks[i].bubbles = <<>>}
         IN  IF bad = {} THEN [Ok |-> TRUE]
             ELSE LET first == CHOOSE i \in bad : \A j \in bad : i <= j
                  IN  IF doc.field_blocks[first].field_label = ""
                      THEN [Err |-> "Field label cannot be empty"]
                      ELSE [Err |-> "Field block must have at least one bubble"]

\* OmrTemplate::load of a document that was read and parsed.
load(doc) ==
    LET validated == validate(doc)
    IN  IF "Err" \in DOMAIN validated THEN validated ELSE [Ok |-> doc]

\* A slip that takes text files for images.
ImageExtensions_with_txt == {"jpg", "jpeg", "png", "bmp", "tiff", "txt"}

ImageExtensions == {"jpg", "jpeg", "png", "bmp", "tiff"}

\* find_image_files over one input directory: the paths of the entries with
\* an image extension, in walk order.
RECURSIVE find_image_files(_, _)
find_image_files(entries, n) ==
    IF n = 0 THEN <<>>
    ELSE IF entries[n].ext \in ImageExtensions
         THEN Append(find_image_files(entries, n - 1), entries[n].path)
         ELSE find_image_files(entries, n - 1)

\* detect_bubbles_with_template as a function of its arguments.
detect_bubbles_with_template(img, tmpl) ==
    collect_responses([i \in 1..Len(tmpl.field_blocks) |->
                          process_field_block(img, tmpl.field_blocks[i], tmpl)],
                      [i \in 1..Len(tmpl.field_blocks) |-> i]).Ok

\* detect_bubbles_auto on an image of at most 20 pixels: is_likely_bubble
\* wants more than 20 pixels in a component, so no region survives and no
\* response is emitted.
detect_bubbles_auto(img) == <<>>

\* The content of a file that image::open cannot decode.
Corrupt == [corrupt |-> TRUE]

\* The ProcessingResult of a file with these detected bubbles.
processing_result(file_path, detected_bubbles, alignment_applied) ==
    LET total == FracSum([i \in 1..Len(detected_bubbles) |->
                             detected_bubbles[i].confidence])
        count == IF Len(detected_bubbles) > 1 THEN Len(detected_bubbles) ELSE 1
    IN  [file_path |-> file_path,
         detected_bubbles |-> detected_bubbles,
         confidence_score |-> Frac(total.num, total.den * count),
         alignment_applied |-> alignment_applied]

\* The task of one image file.  An entry whose content is Corrupt fails in
\* load_image; any other content is the image as preprocess_image left it.
process_single_file(entry, tmpl, align) ==
    IF entry.content = Corrupt
    THEN [Err |-> <<"Failed to load image", entry.path>>]
    ELSE [Ok |-> processing_result(entry.path,
                     IF tmpl # None
                     THEN detect_bubbles_with_template(entry.content, tmpl)
                     ELSE detect_bubbles_auto(entry.content),
                     align /\ tmpl # None)]

\* A collection that keeps the results in the order the tasks finished.
collect_files_by_completion(results, order) ==
    [k \in 1..Len(order) |-> results[order[k]].Ok]

\* par_iter().map(..).collect::<Result<Vec<_>>>() when no task failed: the
\* results in the order of image_files.
collect_files(results, order) ==
    [i \in 1..Len(results) |-> results[i].Ok]

\* The rows of results.csv below the header.
RECURSIVE csv_rows(_, _)
csv_rows(files, n) ==
    IF n = 0 THEN <<>>
    ELSE csv_rows(files, n - 1) \o
         [k \in 1..Len(files[n].detected_bubbles) |->
             [file_path |-> files[n].file_path,
              field_label |-> files[n].detected_bubbles[k].field_label,
              detected_values |-> files[n].detected_bubbles[k].detected_values,
              confidence |-> files[n].detected_bubbles[k].confidence]]

\* generate_results: what it writes to the output directory.
generate_results(files) ==
    [created |-> TRUE, csv |-> [rows |-> csv_rows(files, Len(files))],
     json |-> [files |-> files]]

--------------------------------------------------------------------------
(* Inputs of the evaluation engine *)

Labels == {"Q1", "Q2"}
Values == {"A", "B"}

MaxDetected == 2        \* detected values of one response
MaxExpected == 2        \* accepted answers of one key entry
MaxResponses == 2       \* responses of one file
MaxFiles == 2           \* files of one batch
MaxBatchResponses == 1  \* responses of one file of a batch

\* A per-field override whose three scores differ from every default.
Q1Variant == [correct |-> 200, incorrect |-> -50, unmarked |-> -10]

ScoringConfigs ==
    {[default_correct |-> c,
      default_incorrect |-> DefaultIncorrect,
      default_unmarked |-> DefaultUnmarked,
      custom_variants |-> cv] :
        c \in {DefaultCorrect, 0 - DefaultCorrect},
        cv \in {<<>>, [l \in {"Q1"} |-> Q1Variant]}}

BubbleResponses(labels, detected, confidences) ==
    [field_label : labels, detected_values : detected,
     confidence : confidences, is_multi_marked : BOOLEAN]

\* Every response with up to MaxDetected values (duplicates and orders).
FieldResponses == BubbleResponses(Labels, SeqsUpTo(Values, MaxDetected), {30, 90})

\* The responses a detector produces for a two-bubble field: blank, one
\* mark, two marks (multi-marked or on a multiple-choice field).
FileResponses ==
    {r \in BubbleResponses(Labels, {<<>>, <<"A">>, <<"A", "B">>}, {90}) :
        r.is_multi_marked => Len(r.detected_values) > 1}

BatchResponses == {r \in FileResponses :
                     r.field_label = "Q1" /\ (Len(r.detected_values) > 1 => r.is_multi_marked)}

\* Keys over Q1 alone: Q2 is a label absent from every one of them.
FieldKeys == {<<>>} \cup {[l \in {"Q1"} |-> e] : e \in SeqsUpTo(Values, MaxExpected)}

FileKeys == {<<>>, [l \in {"Q1"} |-> <<"A">>],
             [l \in Labels |-> IF l = "Q1" THEN <<"B", "A">> ELSE <<>>]}

BatchKeys == {<<>>, [l \in {"Q1"} |-> <<"A">>]}

\* The i-th file of a list is given the path i.
FileOf(i, bubbles) == [file_path |-> i, detected_bubbles |-> bubbles]

FileLists(universe, max_responses, min_files, max_files) ==
    UNION {[1..n -> SeqsUpTo(universe, max_responses)] : n \in min_files..max_files}

WithPaths(lists) == {[i \in 1..Len(l) |-> FileOf(i, l[i])] : l \in lists}

\* The state of a part of the program that a specification does not run.
DetectIdle ==
    /\ template = None
    /\ image = None
    /\ field_responses = <<>>
    /\ completed = <<>>
    /\ responses = None

RunIdle ==
    /\ template_doc = None
    /\ input_files = <<>>
    /\ auto_align = FALSE
    /\ pc = "idle"
    /\ image_files = <<>>
    /\ task_results = <<>>
    /\ task_order = <<>>
    /\ saved_error = None
    /\ output = None
    /\ result = None

EvalIdle ==
    /\ scoring_config = default_scoring_config
    /\ answer_key = <<>>
    /\ processed_files = <<>>
    /\ report = None
    /\ batch_report = None

MarkIdle ==
    /\ marked_region = None
    /\ mark_confidence = None

ExtractIdle ==
    /\ geometry = None
    /\ extracted = None

CandidateIdle ==
    /\ bubble_candidate = None
    /\ likely_bubble = None

OtsuIdle ==
    /\ gray_image = None
    /\ otsu_threshold = None

AutoIdle ==
    /\ scanned_image = None
    /\ auto_responses = <<>>

MatchIdle ==
    /\ search_image = None
    /\ template_region = None
    /\ best_offset = None
    /\ ncc_value = None

StatIdle ==
    /\ stat_reports = <<>>
    /\ statistics = None

KeyIdle ==
    /\ key_file = None
    /\ loaded_key = None

ContourIdle ==
    /\ called = None
    /\ binary = None
    /\ phase = None
    /\ scan_pos = 0
    /\ visited = {}
    /\ stack = <<>>
    /\ contour = <<>>
    /\ contours = <<>>

AlignIdle ==
    /\ align_input = None
    /\ aligned = None

WebIdle ==
    /\ jobs = <<>>
    /\ job_lock = None
    /\ start_pc = None
    /\ task_pc = None
    /\ run_result = None
    /\ query_pc = None
    /\ query_job = None
    /\ queries_made = 0
    /\ observed = None
    /\ last_answer = None
    /\ responded = {}

LateIdle == StatIdle /\ KeyIdle /\ ContourIdle /\ AlignIdle /\ WebIdle

AlgoIdle ==
    /\ MarkIdle
    /\ ExtractIdle
    /\ CandidateIdle
    /\ OtsuIdle
    /\ AutoIdle
    /\ MatchIdle
    /\ LateIdle

EarlyIdle ==
    /\ EvalIdle
    /\ DetectIdle
    /\ RunIdle
    /\ MarkIdle
    /\ ExtractIdle
    /\ CandidateIdle
    /\ OtsuIdle
    /\ AutoIdle
    /\ MatchIdle

EvalInit ==
    /\ DetectIdle
    /\ RunIdle
    /\ AlgoIdle
    /\ scoring_config \in ScoringConfigs
    /\ report = None
    /\ batch_report = None
    /\ \/ /\ answer_key \in FieldKeys
          /\ processed_files \in {<<FileOf(1, <<r>>)>> : r \in FieldResponses}
       \/ /\ answer_key \in FileKeys
          /\ processed_files \in
                {<<FileOf(1, b)>> : b \in SeqsUpTo(FileResponses, MaxResponses)}
       \/ /\ answer_key \in BatchKeys
          /\ processed_files \in
                WithPaths(FileLists(BatchResponses, MaxBatchResponses, 0, MaxFiles))

\* engine.evaluate_responses(&processed_files[i], &answer_key)
EvaluateResponses ==
    \E i \in 1..Len(processed_files) :
        /\ report' = evaluate_responses(scoring_config, processed_files[i], answer_key)
        /\ UNCHANGED <<scoring_config, answer_key, processed_files, batch_report,
                     detectVars, runVars, algoVars>>

\* engine.evaluate_batch(&processed_files, &answer_key)
EvaluateBatch ==
    /\ batch_report' = evaluate_batch(scoring_config, processed_files, answer_key)
    /\ UNCHANGED <<scoring_config, answer_key, processed_files, report,
                 detectVars, runVars, algoVars>>

EvalNext == EvaluateResponses \/ EvaluateBatch

SpecEval == EvalInit /\ [][EvalNext]_vars

--------------------------------------------------------------------------
(* Properties of the evaluation engine (SpecEval) *)

\* The responses the last report was computed from.
ReportInput == processed_files[report.file_path].detected_bubbles

\* The expected answers of a label: empty when the key has no such label.
Expected(label) == IF label \in DOMAIN answer_key THEN answer_key[label] ELSE <<>>

\* C1: is_correct is decided in this order: a multi-marked response is
\* incorrect; else a response with no detected value is correct iff the
\* expected answers are empty; else it is correct iff detected and expected
\* values are equal as sets.  A blank response against an empty expectation
\* gets the feedback "Correctly left blank".
C1_CorrectnessPrecedence ==
    report # None =>
        /\ Len(report.field_results) = Len(ReportInput)
        /\ \A i \in 1..Len(ReportInput) :
            LET r == ReportInput[i]
                fr == report.field_results[i]
                expected == Expected(r.field_label)
            IN  /\ fr.is_correct =
                      IF r.is_multi_marked THEN FALSE
                      ELSE IF Len(r.detected_values) = 0 THEN Len(expected) = 0
                      ELSE Range(r.detected_values) = Range(expected)
                /\ (~r.is_multi_marked /\ Len(r.detected_values) = 0
                        /\ Len(expected) = 0)
                       => fr.feedback = <<"Correctly left blank">>

\* C1 witness: a response whose values are the key's in another order is
\* judged correct.
C1_Witness ==
    /\ report # None
    /\ \E i \in 1..Len(report.field_results) :
        /\ report.field_results[i].detected_values = <<"B", "A">>
        /\ report.field_results[i].correct_answers = <<"A", "B">>
        /\ report.field_results[i].is_correct

\* The three scores that apply to a label: its ScoreVariant's when it has
\* one, the global defaults otherwise.
ScoresFor(label) ==
    IF label \in DOMAIN scoring_config.custom_variants
    THEN scoring_config.custom_variants[label]
    ELSE [correct |-> scoring_config.default_correct,
          incorrect |-> scoring_config.default_incorrect,
          unmarked |-> scoring_config.default_unmarked]

\* C2: the score of a field is, from the label's ScoreVariant or else the
\* defaults: the incorrect score when multi-marked; otherwise the unmarked
\* score when nothing is detected (also when the blank is correct);
\* otherwise the correct score when correct; otherwise the incorrect score.
C2_ScoreRule ==
    report # None =>
        /\ Len(report.field_results) = Len(ReportInput)
        /\ \A i \in 1..Len(ReportInput) :
            LET r == ReportInput[i]
                fr == report.field_results[i]
                scores == ScoresFor(r.field_label)
            IN  /\ r.is_multi_marked => fr.score = scores.incorrect
                /\ (~r.is_multi_marked /\ r.detected_values = <<>>)
                       => fr.score = scores.unmarked
                /\ (~r.is_multi_marked /\ r.detected_values # <<>> /\ fr.is_correct)
                       => fr.score = scores.correct
                /\ (~r.is_multi_marked /\ r.detected_values # <<>> /\ ~fr.is_correct)
                       => fr.score = scores.incorrect

\* C2 witness: a correct blank on a field with a ScoreVariant earns the
\* variant's unmarked score.
C2_Witness ==
    /\ report # None
    /\ \E i \in 1..Len(report.field_results) :
        /\ report.field_results[i].field_label \in DOMAIN scoring_config.custom_variants
        /\ report.field_results[i].detected_values = <<>>
        /\ report.field_results[i].is_correct
        /\ report.field_results[i].score = Q1Variant.unmarked

\* C4: total_score is the sum of the field scores, max_possible_score is
\* (number of responses) x (default correct score) whatever the variants,
\* and there is one field result per response, in response order.
C4_ReportAggregates ==
    report # None =>
        /\ Len(report.field_results) = Len(ReportInput)
        /\ \A i \in 1..Len(ReportInput) :
            /\ report.field_results[i].field_label = ReportInput[i].field_label
            /\ report.field_results[i].detected_values = ReportInput[i].detected_values
            /\ report.field_results[i].confidence = ReportInput[i].confidence
        /\ report.total_score =
               SumSeq([i \in 1..Len(report.field_results) |->
                          report.field_results[i].score])
        /\ report.max_possible_score =
               Len(ReportInput) * scoring_config.default_correct

\* C4 witness: a two-response report in which a field scored its variant's
\* correct score while the maximum counts the default for both.
C4_Witness ==
    /\ report # None
    /\ Len(report.field_results) = 2
    /\ report.field_results[1].field_label # report.field_results[2].field_label
    /\ \E i \in 1..2 : report.field_results[i].score = Q1Variant.correct
    /\ report.max_possible_score = 2 * DefaultCorrect

\* p is the exact value of max(0, t / m * 100), for m # 0.
IsClampedPercent(p, t, m) ==
    IF t * m <= 0 THEN p = Zero
    ELSE p.den > 0 /\ p.num * m = t * 100 * p.den

\* C5 as stated: percentage = max(0, total / max x 100) whenever max is not
\* 0, 0 when max is 0, and never negative.
C5_AsStated ==
    report # None =>
        /\ report.max_possible_score # 0 =>
               IsClampedPercent(report.percentage, report.total_score,
                                report.max_possible_score)
        /\ report.max_possible_score = 0 => report.percentage = Zero
        /\ report.percentage.num >= 0 /\ report.percentage.den > 0

\* C5 amended: percentage = max(0, total / max x 100) whenever max is
\* greater than 0, 0 whenever max is 0 or negative, and never negative.
C5_PercentageAmended ==
    report # None =>
        /\ report.max_possible_score > 0 =>
               IsClampedPercent(report.percentage, report.total_score,
                                report.max_possible_score)
        /\ report.max_possible_score <= 0 => report.percentage = Zero
        /\ report.percentage.num >= 0 /\ report.percentage.den > 0

\* C5 witness: a report whose maximum is negative while its total is too (so
\* that total / max x 100 is positive) and whose percentage is 0.
C5_Witness ==
    /\ report # None
    /\ report.max_possible_score < 0
    /\ report.total_score < 0
    /\ report.percentage = Zero

\* The parts of C6 that do not concern the percentage.
BatchCounts ==
    /\ batch_report.total_files = Len(processed_files)
    /\ Len(batch_report.individual_reports) = Len(processed_files)
    /\ \A i \in 1..Len(processed_files) :
        /\ batch_report.individual_reports[i].file_path = processed_files[i].file_path
        /\ Len(batch_report.individual_reports[i].field_results) =
               Len(processed_files[i].detected_bubbles)
    /\ batch_report.files_with_multi_marks =
           Cardinality({i \in 1..Len(processed_files) :
               \E k \in 1..Len(processed_files[i].detected_bubbles) :
                   processed_files[i].detected_bubbles[k].is_multi_marked})
    /\ batch_report.total_score =
           SumSeq([i \in 1..Len(processed_files) |->
                      batch_report.individual_reports[i].total_score])
    /\ batch_report.max_possible_score =
           SumSeq([i \in 1..Len(processed_files) |->
                      batch_report.individual_reports[i].max_possible_score])

\* Two files scoring 1.0/1.0 and 0.0/1.0.
IsHalfBatch ==
    /\ Len(batch_report.individual_reports) = 2
    /\ batch_report.individual_reports[1].total_score = 100
    /\ batch_report.individual_reports[1].max_possible_score = 100
    /\ batch_report.individual_reports[2].total_score = 0
    /\ batch_report.individual_reports[2].max_possible_score = 100

\* C6 as stated: total_files, the reports in input order, the count of
\* files with a multi-marked response, the two sums, and average_percentage
\* = max(0, sum of scores / sum of maxima x 100), 0 when that sum is 0.
C6_AsStated ==
    batch_report # None =>
        /\ BatchCounts
        /\ batch_report.max_possible_score # 0 =>
               IsClampedPercent(batch_report.average_percentage,
                                batch_report.total_score,
                                batch_report.max_possible_score)
        /\ batch_report.max_possible_score = 0 =>
               batch_report.average_percentage = Zero
        /\ IsHalfBatch => batch_report.average_percentage = Frac(50, 1)

\* C6 amended: as C6, with average_percentage = max(0, sum of scores / sum
\* of maxima x 100) when the sum of maxima is greater than 0, and 0 when it
\* is 0 or negative.
C6_BatchAmended ==
    batch_report # None =>
        /\ BatchCounts
        /\ batch_report.max_possible_score > 0 =>
               IsClampedPercent(batch_report.average_percentage,
                                batch_report.total_score,
                                batch_report.max_possible_score)
        /\ batch_report.max_possible_score <= 0 =>
               batch_report.average_percentage = Zero
        /\ IsHalfBatch => batch_report.average_percentage = Frac(50, 1)

\* C6 witness: the batch of a file scoring 1.0/1.0 and a file scoring
\* 0.0/1.0 has the average percentage 50.
C6_Witness ==
    /\ batch_report # None
    /\ IsHalfBatch
    /\ batch_report.average_percentage = [num |-> 50, den |-> 1]
    /\ batch_report.total_files = 2

--------------------------------------------------------------------------
(* Template-guided detection of one image (SpecDetect) *)

MaxBlocks == 2          \* field blocks of a template

FieldTypes == {"MultipleChoice", "SingleChoice", "Integer", "RollNumber"}

\* A field block of two bubbles, A and B, side by side.  The k-th block of
\* a template starts two pixels right of the one before it.
FieldBlockAt(k, label, type) ==
    [field_label |-> label, field_type |-> type,
     origin |-> <<2 * (k - 1), 0>>,
     bubbles |-> <<[position |-> <<0, 0>>, value |-> "A"],
                   [position |-> <<1, 0>>, value |-> "B"]>>]

\* Templates that pass load: one-pixel bubbles on a 4 x 1 page, any labels
\* (equal ones too) and any types.
DetectTemplates ==
    {[bubble_dimensions |-> [width |-> 1, height |-> 1],
      page_dimensions |-> <<4, 1>>,
      field_blocks |-> [k \in 1..Len(f) |-> FieldBlockAt(k, f[k][1], f[k][2])]] :
        f \in SeqsUpTo(Labels \X FieldTypes, MaxBlocks)}

\* 4 x 1 images of black and white pixels.  A block past the right edge is
\* read at the clamped position.
DetectImages ==
    {[width |-> 4, height |-> 1, pixels |-> px] : px \in [1..4 -> {0, 255}]}

DetectInit ==
    /\ RunIdle
    /\ AlgoIdle
    /\ scoring_config = default_scoring_config
    /\ answer_key = <<>>
    /\ processed_files = <<>>
    /\ report = None
    /\ batch_report = None
    /\ template \in DetectTemplates
    /\ image \in DetectImages
    /\ field_responses = [i \in 1..Len(template.field_blocks) |-> None]
    /\ completed = <<>>
    /\ responses = None

\* One task of the parallel map: process_field_block on a block not yet done.
ProcessFieldBlock ==
    \E i \in 1..Len(template.field_blocks) :
        /\ responses = None
        /\ field_responses[i] = None
        /\ field_responses' =
               [field_responses EXCEPT
                   ![i] = process_field_block(image, template.field_blocks[i], template)]
        /\ completed' = Append(completed, i)
        /\ UNCHANGED <<template, image, responses, evalVars, runVars, algoVars>>

\* The collect and the return, once every task has finished.
CollectResponses ==
    /\ responses = None
    /\ \A i \in 1..Len(field_responses) : field_responses[i] # None
    /\ responses' = collect_responses(field_responses, completed)
    /\ UNCHANGED <<template, image, field_responses, completed, evalVars, runVars, algoVars>>

DetectNext == ProcessFieldBlock \/ CollectResponses

SpecDetect == DetectInit /\ [][DetectNext]_vars

--------------------------------------------------------------------------
(* Properties of template-guided detection (SpecDetect) *)

\* The response of the i-th field block, once its task has finished.
ResponseOf(i) == field_responses[i].Ok[1]

\* The incorrect score that applies to a label under a scoring configuration.
IncorrectScore(cfg, label) ==
    IF label \in DOMAIN cfg.custom_variants
    THEN cfg.custom_variants[label].incorrect
    ELSE cfg.default_incorrect

\* C3: for every field block (also when several blocks share a label) the
\* response is multi-marked exactly when more than one of the block's
\* bubbles is selected and the block's own field type is not
\* MultipleChoice; a multi-marked response is scored incorrect whatever the
\* answer key says.
C3_AsStated ==
    \A i \in 1..Len(field_responses) :
        field_responses[i] # None =>
            LET block == template.field_blocks[i]
                resp == ResponseOf(i)
            IN  /\ resp.is_multi_marked =
                       (Len(resp.detected_values) > 1
                            /\ block.field_type # "MultipleChoice")
                /\ resp.is_multi_marked =>
                       \A cfg \in ScoringConfigs, key \in FieldKeys :
                           LET evaluation == evaluate_single_field(cfg, resp, key)
                           IN  /\ ~evaluation.is_correct
                               /\ evaluation.score =
                                      IncorrectScore(cfg, resp.field_label)

\* The values of the bubbles for which keep holds, in bubble order.
RECURSIVE ValuesWhere(_, _, _)
ValuesWhere(bubbles, keep, n) ==
    IF n = 0 THEN <<>>
    ELSE IF keep[n] THEN Append(ValuesWhere(bubbles, keep, n - 1), bubbles[n].value)
         ELSE ValuesWhere(bubbles, keep, n - 1)

\* Whether the pixel under a (one-pixel) bubble of a block is dark, the
\* bubble being read at the last column when it lies past the right edge.
DarkUnder(block, b) ==
    image.pixels[Min(block.origin[1] + block.bubbles[b].position[1],
                     image.width - 1) + 1] < DarkThreshold

\* C10: detection returns exactly one response per field block, the i-th
\* carrying the i-th block's label, in whatever order the blocks were
\* processed; a block's response is determined by the block and the image
\* under its bubbles.
C10_OneResponsePerBlock ==
    /\ \A i \in 1..Len(field_responses) :
        field_responses[i] # None =>
            LET block == template.field_blocks[i] IN
            /\ Len(field_responses[i].Ok) = 1
            /\ ResponseOf(i).field_label = block.field_label
            /\ ResponseOf(i).detected_values =
                   ValuesWhere(block.bubbles,
                               [b \in 1..Len(block.bubbles) |-> DarkUnder(block, b)],
                               Len(block.bubbles))
    /\ responses # None =>
        /\ Len(responses.Ok) = Len(template.field_blocks)
        /\ \A i \in 1..Len(template.field_blocks) :
            /\ responses.Ok[i].field_label = template.field_blocks[i].field_label
            /\ responses.Ok[i] = ResponseOf(i)

\* C10 witness: the second block's task finished before the first's, the
\* two blocks differ in label and in marks, and the result is returned.
C10_Witness ==
    /\ responses # None
    /\ completed = <<2, 1>>
    /\ Len(responses.Ok) = 2
    /\ responses.Ok[1].field_label # responses.Ok[2].field_label
    /\ responses.Ok[1].detected_values # responses.Ok[2].detected_values

--------------------------------------------------------------------------
(* One run of OmrConfig::execute (SpecRun) *)

MaxEntries == 3         \* entries of the input directory

\* Field blocks of a template document: sound ones, one with an empty
\* label, one without bubbles.
GoodBlock(k, label) == FieldBlockAt(k, label, "SingleChoice")
EmptyLabelBlock(k) == FieldBlockAt(k, "", "SingleChoice")
NoBubbleBlock(k) == [FieldBlockAt(k, "Q1", "SingleChoice") EXCEPT !.bubbles = <<>>]

RunBlockLists ==
    {<<>>, <<GoodBlock(1, "Q1")>>, <<GoodBlock(1, "Q1"), GoodBlock(2, "Q2")>>,
     <<EmptyLabelBlock(1)>>, <<NoBubbleBlock(1)>>,
     <<GoodBlock(1, "Q1"), NoBubbleBlock(2)>>,
     <<GoodBlock(1, "Q1"), EmptyLabelBlock(2)>>}

\* Parsed template documents, sound or not.
TemplateDocs ==
    {[bubble_dimensions |-> [width |-> bd[1], height |-> bd[2]],
      page_dimensions |-> pd,
      field_blocks |-> blocks] :
        bd \in {<<1, 1>>, <<0, 1>>, <<1, 0>>},
        pd \in {<<4, 1>>, <<0, 1>>, <<4, 0>>},
        blocks \in RunBlockLists}

RunImages ==
    {[width |-> 4, height |-> 1, pixels |-> px] :
        px \in {<<0, 0, 255, 255>>, <<255, 0, 255, 0>>}}

\* What a directory entry can be: a sound image, a corrupt one, another file.
EntryKinds ==
    {[ext |-> "png", content |-> c] : c \in RunImages \cup {Corrupt}}
        \cup {[ext |-> "txt", content |-> Corrupt]}

\* The k-th entry of the walk has the path k.
Listings ==
    {[k \in 1..Len(l) |-> [path |-> k, ext |-> l[k].ext, content |-> l[k].content]] :
        l \in SeqsUpTo(EntryKinds, MaxEntries)}

RunInit ==
    /\ AlgoIdle
    /\ scoring_config = default_scoring_config
    /\ answer_key = <<>>
    /\ processed_files = <<>>
    /\ report = None
    /\ batch_report = None
    /\ template = None
    /\ image = None
    /\ field_responses = <<>>
    /\ completed = <<>>
    /\ responses = None
    /\ template_doc \in TemplateDocs \cup {None}
    /\ input_files \in Listings
    /\ auto_align \in BOOLEAN
    /\ pc = "start"
    /\ image_files = <<>>
    /\ task_results = <<>>
    /\ task_order = <<>>
    /\ saved_error = None
    /\ output = [created |-> FALSE, csv |-> None, json |-> None]
    /\ result = None

runFrame == <<evalVars, detectVars, algoVars>>

\* create_dir_all(output_dir), then the template is loaded when a path is
\* given; a template that fails validation ends the run with its error.
LoadTemplate ==
    /\ pc = "start"
    /\ output' = [output EXCEPT !.created = TRUE]
    /\ IF template_doc = None
       THEN /\ pc' = "find"
            /\ UNCHANGED <<template, result>>
       ELSE LET loaded == load(template_doc)
            IN  IF "Err" \in DOMAIN loaded
                THEN /\ result' = loaded
                     /\ pc' = "returned"
                     /\ UNCHANGED template
                ELSE /\ template' = loaded.Ok
                     /\ pc' = "find"
                     /\ UNCHANGED result
    /\ UNCHANGED <<scoring_config, answer_key, processed_files, report, batch_report,
                   image, field_responses, completed, responses,
                   template_doc, input_files, auto_align, image_files,
                   task_results, task_order, saved_error, algoVars>>

\* find_image_files; with no image file the run returns at once.
FindImageFiles ==
    /\ pc = "find"
    /\ LET found == find_image_files(input_files, Len(input_files))
       IN  /\ image_files' = found
           /\ IF found = <<>>
              THEN /\ result' = [Ok |-> [success |-> FALSE,
                                         processed_files |-> <<>>,
                                         errors |-> <<"No input files found">>]]
                   /\ pc' = "returned"
                   /\ UNCHANGED task_results
              ELSE /\ task_results' = [i \in 1..Len(found) |-> None]
                   /\ pc' = "process"
                   /\ UNCHANGED result
    /\ UNCHANGED <<runFrame, template_doc, input_files, auto_align,
                   task_order, saved_error, output>>

\* One task of the parallel map: process_single_file on a file not yet
\* done.  The collect keeps the first Err it is given.
ProcessSingleFile ==
    \E i \in 1..Len(image_files) :
        /\ pc = "process"
        /\ task_results[i] = None
        /\ \E done \in {process_single_file(input_files[image_files[i]],
                                             template, auto_align)} :
               /\ task_results' = [task_results EXCEPT ![i] = done]
               /\ saved_error' = IF "Err" \in DOMAIN done /\ saved_error = None
                                 THEN done ELSE saved_error
        /\ task_order' = Append(task_order, i)
        /\ UNCHANGED <<runFrame, template_doc, input_files, auto_align, pc,
                       image_files, output, result>>

\* A task failed: the collect yields its Err (tasks not yet started are
\* dropped) and the ? of execute returns it.
ReturnError ==
    /\ pc = "process"
    /\ saved_error # None
    /\ result' = saved_error
    /\ pc' = "returned"
    /\ UNCHANGED <<runFrame, template_doc, input_files, auto_align, image_files,
                   task_results, task_order, saved_error, output>>

\* Every task returned Ok: the files are collected, the results written and
\* the run returns them.
GenerateResults ==
    /\ pc = "process"
    /\ saved_error = None
    /\ \A i \in 1..Len(task_results) : task_results[i] # None
    /\ LET files == collect_files(task_results, task_order)
       IN  /\ processed_files' = files
           /\ output' = generate_results(files)
           /\ result' = [Ok |-> [success |-> TRUE,
                                 processed_files |-> files,
                                 errors |-> <<>>]]
    /\ pc' = "returned"
    /\ UNCHANGED <<scoring_config, answer_key, report, batch_report, detectVars, algoVars,
                   template_doc, input_files, auto_align, image_files,
                   task_results, task_order, saved_error>>

RunNext ==
    \/ LoadTemplate
    \/ FindImageFiles
    \/ ProcessSingleFile
    \/ ReturnError
    \/ GenerateResults

SpecRun == RunInit /\ [][RunNext]_vars

--------------------------------------------------------------------------
(* Properties of a run (SpecRun) *)

IsErr(r) == "Err" \in DOMAIN r
IsOk(r) == "Ok" \in DOMAIN r

\* The task of some image file has failed.
SomeTaskFailed ==
    \E i \in 1..Len(task_results) : task_results[i] # None /\ IsErr(task_results[i])

\* The image files that can be read.
GoodFiles == {i \in 1..Len(image_files) : input_files[image_files[i]].content # Corrupt}

\* C7: when the processing of one input file fails, the run still returns a
\* result that holds a ProcessedFile for every good file and records the
\* failure in its errors list.
C7_AsStated ==
    (pc = "returned" /\ SomeTaskFailed) =>
        /\ IsOk(result)
        /\ \A i \in GoodFiles :
            \E k \in 1..Len(result.Ok.processed_files) :
                result.Ok.processed_files[k].file_path = image_files[i]
        /\ result.Ok.errors # <<>>

\* The rows of results.csv that belong to one file, in the order written.
RowsOf(path) == SelectSeq(output.csv.rows, LAMBDA row : row.file_path = path)

\* C8: whatever order the per-file tasks finish in, the processed_files of
\* the result and the exported rows follow the discovery order: the i-th
\* result belongs to the i-th discovered file.
C8_DiscoveryOrder ==
    (pc = "returned" /\ IsOk(result) /\ result.Ok.success) =>
        /\ Len(result.Ok.processed_files) = Len(image_files)
        /\ \A i \in 1..Len(image_files) :
            /\ result.Ok.processed_files[i].file_path = image_files[i]
            /\ [k \in 1..Len(RowsOf(image_files[i])) |->
                   RowsOf(image_files[i])[k].field_label]
               = [k \in 1..Len(result.Ok.processed_files[i].detected_bubbles) |->
                   result.Ok.processed_files[i].detected_bubbles[k].field_label]
        /\ output.json.files = result.Ok.processed_files
        /\ \A a, b \in 1..Len(output.csv.rows) :
            a < b => output.csv.rows[a].file_path <= output.csv.rows[b].file_path

\* C8 witness: a successful run of at least two files in which the task of
\* the last file finished first, and whose export has rows of two files.
C8_Witness ==
    /\ pc = "returned"
    /\ IsOk(result)
    /\ result.Ok.success
    /\ Len(image_files) >= 2
    /\ task_order[1] = Len(image_files)
    /\ \E a, b \in 1..Len(output.csv.rows) :
        output.csv.rows[a].file_path # output.csv.rows[b].file_path

\* The four template invariants.
Sound(doc) ==
    /\ doc.bubble_dimensions.width > 0
    /\ doc.bubble_dimensions.height > 0
    /\ doc.page_dimensions[1] > 0
    /\ doc.page_dimensions[2] > 0
    /\ \A i \in 1..Len(doc.field_blocks) :
        /\ doc.field_blocks[i].field_label # ""
        /\ Len(doc.field_blocks[i].bubbles) >= 1

\* C9: a run given a template document that violates a template invariant
\* fails with an error before any image file is loaded or processed and
\* writes no result file; a template that passes load satisfies the four
\* invariants.
C9_InvalidTemplateFails ==
    /\ (template_doc # None /\ ~Sound(template_doc)) =>
        /\ pc \in {"start", "returned"}
        /\ image_files = <<>>
        /\ task_order = <<>>
        /\ processed_files = <<>>
        /\ output.csv = None
        /\ output.json = None
        /\ pc = "returned" => IsErr(result)
    /\ template # None => Sound(template)

\* C9 witness: a run over a readable image file has ended with an error
\* because a field block of its template has no bubbles.
C9_Witness ==
    /\ pc = "returned"
    /\ IsErr(result)
    /\ template_doc # None
    /\ template_doc.bubble_dimensions = [width |-> 1, height |-> 1]
    /\ template_doc.page_dimensions = <<4, 1>>
    /\ \E i \in 1..Len(template_doc.field_blocks) :
        template_doc.field_blocks[i].bubbles = <<>>
    /\ \A i \in 1..Len(template_doc.field_blocks) :
        template_doc.field_blocks[i].field_label # ""
    /\ \E k \in 1..Len(input_files) :
        input_files[k].ext = "png" /\ input_files[k].content # Corrupt

--------------------------------------------------------------------------
(* Detection with the basic template (SpecBasic) *)

\* BubbleDimensions::default()
default_bubble_dimensions == [width |-> 32, height |-> 32]

\* OmrTemplate::create_basic_template(): field Q1 with bubbles A, B, C, D
\* at x-offsets 0, 50, 100, 150 from the origin (100, 200).
create_basic_template ==
    [bubble_dimensions |-> default_bubble_dimensions,
     page_dimensions |-> <<666, 820>>,
     field_blocks |->
        <<[field_label |-> "Q1", field_type |-> "MultipleChoice",
           origin |-> <<100, 200>>,
           bubbles |-> <<[position |-> <<0, 0>>, value |-> "A"],
                         [position |-> <<50, 0>>, value |-> "B"],
                         [position |-> <<100, 0>>, value |-> "C"],
                         [position |-> <<150, 0>>, value |-> "D"]>>]>>]

\* The 282 x 232 image, white but for the four bubbles of Q1, which are
\* shaded as shades says.  The image ends with the bubbles of the last row,
\* so no region is clamped.
BasicImage(shades) ==
    [width |-> 282, height |-> 232, paper |-> 255,
     marks |-> [b \in 1..4 |->
                  [x |-> 100 + 50 * (b - 1), y |-> 200,
                   width |-> 32, height |-> 32, shade |-> shades[b]]]]

BasicImages ==
    {BasicImage(<<a, b, c, d>>) :
        a \in {"white", "pale", "black"}, b \in {"black", "dim", "half", "white"},
        c \in {"white", "black"}, d \in {"white", "half"}}

BasicInit ==
    /\ RunIdle
    /\ AlgoIdle
    /\ scoring_config = default_scoring_config
    /\ answer_key = <<>>
    /\ processed_files = <<>>
    /\ report = None
    /\ batch_report = None
    /\ template = create_basic_template
    /\ image \in BasicImages
    /\ field_responses = [i \in 1..Len(template.field_blocks) |-> None]
    /\ completed = <<>>
    /\ responses = None

SpecBasic == BasicInit /\ [][DetectNext]_vars

\* The intensity of the image under the pixel (dx, dy) of bubble b of a
\* block (no clamping: the bubble lies inside the image).
IntensityUnder(block, b, dx, dy) ==
    pixel_at(image, block.origin[1] + block.bubbles[b].position[1] + dx,
             block.origin[2] + block.bubbles[b].position[2] + dy)

FullyDark(block, b) ==
    \A dx \in 0..(template.bubble_dimensions.width - 1),
       dy \in 0..(template.bubble_dimensions.height - 1) :
        IntensityUnder(block, b, dx, dy) < 128

Light(block, b) ==
    \A dx \in 0..(template.bubble_dimensions.width - 1),
       dy \in 0..(template.bubble_dimensions.height - 1) :
        IntensityUnder(block, b, dx, dy) >= 128

\* The mark-confidence of bubble b of a block.
ConfidenceOf(block, b) ==
    analyze_bubble_marking(extract_bubble_region(image, block, block.bubbles[b], template))

\* c > num/den
Exceeds(c, num, den) == den * c.num > num * c.den

\* C11: the detected values of a field are the values of the bubbles whose
\* mark-confidence is strictly greater than 0.6 (6/10), in bubble order; for
\* Q1 of the basic template, an image fully dark under B and light under A,
\* C and D yields detected_values <<"B">> and is_multi_marked FALSE.
C11_SelectedAboveThreshold ==
    \A i \in 1..Len(field_responses) :
        field_responses[i] # None =>
            LET block == template.field_blocks[i]
                n == Len(block.bubbles)
            IN  /\ ResponseOf(i).detected_values =
                       ValuesWhere(block.bubbles,
                                   [b \in 1..n |-> Exceeds(ConfidenceOf(block, b), 6, 10)],
                                   n)
                /\ (FullyDark(block, 2) /\ \A b \in {1, 3, 4} : Light(block, b)) =>
                       /\ ResponseOf(i).field_label = "Q1"
                       /\ ResponseOf(i).detected_values = <<"B">>
                       /\ ~ResponseOf(i).is_multi_marked

\* C11 witness: the scenario image (dark under B only) has been processed,
\* and so has an image whose bubble D has a confidence between 0.5 and 0.6.
C11_Witness ==
    /\ responses # None
    /\ FullyDark(template.field_blocks[1], 2)
    /\ \A b \in {1, 3} : Light(template.field_blocks[1], b)
    /\ Exceeds(ConfidenceOf(template.field_blocks[1], 4), 1, 2)
    /\ ~Exceeds(ConfidenceOf(template.field_blocks[1], 4), 6, 10)
    /\ responses.Ok[1].detected_values = <<"B">>

--------------------------------------------------------------------------
(* One call of analyze_bubble_marking (SpecMark) *)

MaxRegionPixels == 4    \* pixels of a region handed to analyze_bubble_marking

\* Intensities on both sides of the darkness cutoff, and the extremes.
Intensities == {0, 127, 128, 255}

\* Regions of 8-bit pixels: every width and height, zero too, that holds at
\* most MaxRegionPixels pixels.
MarkRegions ==
    UNION {{[width |-> d[1], height |-> d[2], pixels |-> px] :
               px \in [1..(d[1] * d[2]) -> Intensities]} :
           d \in {e \in (0..MaxRegionPixels) \X (0..MaxRegionPixels) :
                      e[1] * e[2] <= MaxRegionPixels}}

MarkInit ==
    /\ LateIdle
    /\ EvalIdle
    /\ DetectIdle
    /\ RunIdle
    /\ ExtractIdle
    /\ CandidateIdle
    /\ OtsuIdle
    /\ AutoIdle
    /\ MatchIdle
    /\ marked_region \in MarkRegions
    /\ mark_confidence = None

AnalyzeBubbleMarking ==
    /\ mark_confidence = None
    /\ mark_confidence' = analyze_bubble_marking(marked_region)
    /\ UNCHANGED <<marked_region, lateVars, evalVars, detectVars, runVars, extractVars,
                   candidateVars, otsuVars, autoVars, matchVars>>

MarkNext == AnalyzeBubbleMarking

SpecMark == MarkInit /\ [][MarkNext]_vars

\* The number of pixels of the region below 128, and the sum of all pixels.
DarkCount == Cardinality({k \in 1..Len(marked_region.pixels) :
                             marked_region.pixels[k] <= 127})
IntensitySum == SumSeq(marked_region.pixels)

\* C12: the mark-confidence of a region is
\* 0.7 * (dark / n) + 0.3 * (1 - mean / 255) and lies in [0, 1]; it is 1 for
\* a region of all-0 pixels, 0 for a region of all-255 pixels and 0 for a
\* region of zero width or height.
C12_ConfidenceBounds ==
    mark_confidence # None =>
        LET n == Len(marked_region.pixels) IN
        /\ mark_confidence.den > 0
        /\ mark_confidence.num >= 0
        /\ mark_confidence.num <= mark_confidence.den
        /\ n > 0 =>
            /\ mark_confidence.num * (10 * 255 * n)
                   = mark_confidence.den * (7 * 255 * DarkCount + 3 * (255 * n - IntensitySum))
            /\ (\A k \in 1..n : marked_region.pixels[k] = 0) =>
                   mark_confidence.num = mark_confidence.den
            /\ (\A k \in 1..n : marked_region.pixels[k] = 255) =>
                   mark_confidence.num = 0
        /\ (marked_region.width = 0 \/ marked_region.height = 0) =>
               mark_confidence.num = 0

\* C12 witness: an all-black region of several pixels has confidence 1.
C12_Witness ==
    /\ mark_confidence # None
    /\ Len(marked_region.pixels) >= 2
    /\ \A k \in 1..Len(marked_region.pixels) : marked_region.pixels[k] = 0
    /\ mark_confidence = [num |-> 1, den |-> 1]

--------------------------------------------------------------------------
(* One call of extract_bubble_region (SpecExtract) *)

\* u32 values at both ends of the range.
EdgeValues == {0, 1, 2, U32Max - 1, U32Max}

\* Sizes and positions, all u32: nothing restricts a field origin or a
\* bubble position, and an image may be smaller than a bubble.
Geometries ==
    [img_width : {0, 1, 3, U32Max}, img_height : {0, 2},
     origin : EdgeValues \X {0, 1, U32Max},
     position : EdgeValues \X {0, 1, U32Max},
     bubble_width : {1, 2, U32Max}, bubble_height : {1, 3}]

\* The builds of the crate: with overflow checks (debug) or without (release).
Builds == {"debug", "release"}

ExtractInit ==
    /\ LateIdle
    /\ EvalIdle
    /\ DetectIdle
    /\ RunIdle
    /\ MarkIdle
    /\ CandidateIdle
    /\ OtsuIdle
    /\ AutoIdle
    /\ MatchIdle
    /\ geometry \in Geometries
    /\ extracted = None

\* extract_bubble_region up to the rectangle it reads.  An addition that
\* overflows panics in a build with overflow checks and wraps in one without.
ExtractBubbleRegion ==
    \E build \in Builds :
        /\ extracted = None
        /\ extracted' =
               IF build = "debug"
                  /\ bubble_rect_overflows(geometry.img_width, geometry.img_height,
                                           geometry.origin, geometry.position,
                                           geometry.bubble_width, geometry.bubble_height)
               THEN [Panic |-> "attempt to add with overflow"]
               ELSE [Ok |-> bubble_rect(geometry.img_width, geometry.img_height,
                                        geometry.origin, geometry.position,
                                        geometry.bubble_width, geometry.bubble_height)]
        /\ UNCHANGED <<geometry, lateVars, evalVars, detectVars, runVars, markVars,
                       candidateVars, otsuVars, autoVars, matchVars>>

ExtractNext == ExtractBubbleRegion

SpecExtract == ExtractInit /\ [][ExtractNext]_vars

\* min(origin + offset, image size - bubble size), taking 0 when the bubble
\* is larger than the image; the sum is the sum of the two numbers.
ClampedStart(origin, offset, image_size, bubble_size) ==
    Min(origin + offset,
        IF bubble_size > image_size THEN 0 ELSE image_size - bubble_size)

\* C13: for every origin, offset, bubble size and image size, extracting a
\* bubble region does not panic or overflow, and the rectangle satisfies
\* start <= end <= image size on each axis with
\* start = min(origin + offset, image size - bubble size).
C13_AsStated ==
    extracted # None =>
        /\ "Ok" \in DOMAIN extracted
        /\ extracted.Ok.start_x <= extracted.Ok.end_x
        /\ extracted.Ok.end_x <= geometry.img_width
        /\ extracted.Ok.start_y <= extracted.Ok.end_y
        /\ extracted.Ok.end_y <= geometry.img_height
        /\ extracted.Ok.start_x =
               ClampedStart(geometry.origin[1], geometry.position[1],
                            geometry.img_width, geometry.bubble_width)
        /\ extracted.Ok.start_y =
               ClampedStart(geometry.origin[2], geometry.position[2],
                            geometry.img_height, geometry.bubble_height)

\* The same, for origins and offsets whose sums fit a u32.
C13_WithoutOverflow ==
    (/\ extracted # None
     /\ ~add_overflows(geometry.origin[1], geometry.position[1])
     /\ ~add_overflows(geometry.origin[2], geometry.position[2])) =>
        C13_AsStated

--------------------------------------------------------------------------
(* bubble_detection.rs: BubbleRegion; one call of is_likely_bubble
   (SpecCandidate) *)

\* BubbleRegion::new()
BubbleRegion_new ==
    [pixels |-> <<>>, min_x |-> U32Max, max_x |-> 0, min_y |-> U32Max, max_y |-> 0]

Max(a, b) == IF a >= b THEN a ELSE b

\* BubbleRegion::add_pixel
add_pixel(region, x, y) ==
    [pixels |-> Append(region.pixels, <<x, y>>),
     min_x |-> Min(region.min_x, x),
     max_x |-> Max(region.max_x, x),
     min_y |-> Min(region.min_y, y),
     max_y |-> Max(region.max_y, y)]

\* BubbleRegion::is_likely_bubble
is_likely_bubble(region) ==
    LET width == saturating_sub(region.max_x, region.min_x)
        height == saturating_sub(region.max_y, region.min_y)
        area == Len(region.pixels)
    IN  area > 20 /\ area < 2000 /\ width > 5 /\ height > 5
            /\ width < 100 /\ height < 100

\* BubbleRegion::get_bounds
get_bounds(region) ==
    <<region.min_x, region.min_y, region.max_x + 1, region.max_y + 1>>

\* The k-th pixel (from 1) of a connected component that fills a box of
\* cols x rows pixels from its top row and its left column inwards: the top
\* row, then the rest of the left column, then the inside row after row.
ComponentPixel(cols, rows, k) ==
    IF k <= cols THEN <<k - 1, 0>>
    ELSE IF k <= cols + rows - 1 THEN <<0, k - cols>>
    ELSE LET j == k - (cols + rows - 1) - 1
         IN  <<1 + (j % (cols - 1)), 1 + (j \div (cols - 1))>>

\* The BubbleRegion that add_pixel builds from the area pixels of such a
\* component whose box has its corner at (x0, y0).
ComponentRegion(x0, y0, cols, rows, area) ==
    [pixels |-> [k \in 1..area |->
                    <<x0 + ComponentPixel(cols, rows, k)[1],
                      y0 + ComponentPixel(cols, rows, k)[2]>>],
     min_x |-> x0, max_x |-> x0 + cols - 1,
     min_y |-> y0, max_y |-> y0 + rows - 1]

\* Boxes and pixel counts around every limit of is_likely_bubble.
BoxSides == {6, 7, 100, 101}
Areas(cols, rows) ==
    {a \in {19, 20, 21, 1999, 2000, 2001, cols + rows - 1, cols + rows + 30} :
        a >= cols + rows - 1 /\ a <= cols * rows}

Candidates ==
    UNION {{ComponentRegion(x0, y0, box[1], box[2], a) : a \in Areas(box[1], box[2])} :
           x0 \in {0, 3}, y0 \in {0, 2}, box \in BoxSides \X BoxSides}

CandidateInit ==
    /\ LateIdle
    /\ EvalIdle
    /\ DetectIdle
    /\ RunIdle
    /\ MarkIdle
    /\ ExtractIdle
    /\ OtsuIdle
    /\ AutoIdle
    /\ MatchIdle
    /\ bubble_candidate \in Candidates
    /\ likely_bubble = None

IsLikelyBubble ==
    /\ likely_bubble = None
    /\ likely_bubble' = [Some |-> is_likely_bubble(bubble_candidate)]
    /\ UNCHANGED <<bubble_candidate, lateVars, evalVars, detectVars, runVars, markVars,
                   extractVars, otsuVars, autoVars, matchVars>>

CandidateNext == IsLikelyBubble

SpecCandidate == CandidateInit /\ [][CandidateNext]_vars

\* The width and height the filter uses: the distance between the first and
\* the last column (row) of the component.
ExtentX == bubble_candidate.max_x - bubble_candidate.min_x
ExtentY == bubble_candidate.max_y - bubble_candidate.min_y

\* C14: a connected component is kept as a bubble candidate exactly when
\* its pixel count is between 20 and 2000 inclusive and its width and its
\* height are both strictly between 5 and 100.
C14_AsStated ==
    likely_bubble # None =>
        likely_bubble.Some =
            (/\ Len(bubble_candidate.pixels) >= 20
             /\ Len(bubble_candidate.pixels) <= 2000
             /\ 5 < ExtentX /\ ExtentX < 100
             /\ 5 < ExtentY /\ ExtentY < 100)

\* The same with the limits of the pixel count taken strictly.
C14_StrictCount ==
    likely_bubble # None =>
        likely_bubble.Some =
            (/\ Len(bubble_candidate.pixels) > 20
             /\ Len(bubble_candidate.pixels) < 2000
             /\ 5 < ExtentX /\ ExtentX < 100
             /\ 5 < ExtentY /\ ExtentY < 100)

--------------------------------------------------------------------------
(* bubble_detection.rs: calculate_otsu_threshold (SpecOtsu) *)

\* f64 values of the threshold search are exact fractions; 0.0 / 0.0 is NaN,
\* which compares false with everything.
NaN == [nan |-> TRUE]

\* n / d on f64 for counts n <= d: NaN when both are 0.
Ratio(n, d) == IF d = 0 THEN NaN ELSE Frac(n, d)

\* a > 0.0
Positive(a) == a # NaN /\ a.num > 0

\* a * b for fractions, reduced crosswise before multiplying.
FracMul(a, b) ==
    LET g1 == Gcd(a.num, b.den)
        g2 == Gcd(b.num, a.den)
        h1 == IF g1 = 0 THEN 1 ELSE g1
        h2 == IF g2 = 0 THEN 1 ELSE g2
    IN  Frac((a.num \div h1) * (b.num \div h2), (a.den \div h2) * (b.den \div h1))

\* The variances exceed the integers of the checker: natural numbers as
\* digits to the base 2^15, the lowest first.
BigBase == 2 ^ 15

RECURSIVE BigOf(_)
BigOf(n) == IF n = 0 THEN <<>> ELSE <<n % BigBase>> \o BigOf(n \div BigBase)

BigDigit(a, i) == IF i <= Len(a) THEN a[i] ELSE 0

\* a * m + carry for a digit m
RECURSIVE BigScale(_, _, _)
BigScale(a, m, carry) ==
    IF a = <<>> THEN BigOf(carry)
    ELSE LET v == a[1] * m + carry
         IN  <<v % BigBase>> \o BigScale(Tail(a), m, v \div BigBase)

\* a + b + carry
RECURSIVE BigAdd(_, _, _)
BigAdd(a, b, carry) ==
    IF a = <<>> /\ b = <<>> THEN BigOf(carry)
    ELSE LET v == BigDigit(a, 1) + BigDigit(b, 1) + carry
         IN  <<v % BigBase>>
                 \o BigAdd(IF a = <<>> THEN a ELSE Tail(a),
                           IF b = <<>> THEN b ELSE Tail(b), v \div BigBase)

RECURSIVE BigMul(_, _)
BigMul(a, b) ==
    IF b = <<>> THEN <<>>
    ELSE BigAdd(BigScale(a, b[1], 0), <<0>> \o BigMul(a, Tail(b)), 0)

\* a > b, from the digit i down.
RECURSIVE BigGreaterFrom(_, _, _)
BigGreaterFrom(a, b, i) ==
    IF i = 0 THEN FALSE
    ELSE IF BigDigit(a, i) # BigDigit(b, i) THEN BigDigit(a, i) > BigDigit(b, i)
    ELSE BigGreaterFrom(a, b, i - 1)

BigGreater(a, b) == BigGreaterFrom(a, b, Max(Len(a), Len(b)))

\* A fraction with such numbers above and below the line.
BigFrac(a) == [num |-> BigOf(a.num), den |-> BigOf(a.den)]

BigFracMul(a, b) == [num |-> BigMul(a.num, b.num), den |-> BigMul(a.den, b.den)]

\* (a - b)^2 for fractions.
FracSqDiff(a, b) ==
    LET n == a.num * b.den - b.num * a.den
        d == BigFrac(Frac(IF n >= 0 THEN n ELSE -n, a.den * b.den))
    IN  BigFracMul(d, d)

\* a > b for two such fractions.
FracGreater(a, b) == BigGreater(BigMul(a.num, b.den), BigMul(b.num, a.den))

\* The sum of f over the finite set S of integers.
RECURSIVE SumOver(_, _)
SumOver(S, f) ==
    IF S = {} THEN 0
    ELSE LET i == CHOOSE j \in S : TRUE IN f[i] + SumOver(S \ {i}, f)

\* The histogram of an image: per intensity, the number of its pixels.
histogram_of(img) ==
    [i \in 0..255 |-> Cardinality({k \in 1..Len(img.pixels) : img.pixels[k] = i})]

\* A slip that counts the intensity equal to the threshold to class 0.
calculate_class_stats_inclusive(histogram, bins, threshold, total_pixels) ==
    LET below == {i \in bins : i <= threshold}
        above == {i \in bins : i > threshold}
        w0 == SumOver(below, histogram)
        sum0 == SumOver(below, [i \in below |-> i * histogram[i]])
        w1 == total_pixels - w0
        sum1 == SumOver(above, [i \in above |-> i * histogram[i]])
        mu0 == IF w0 > 0 THEN Frac(sum0, w0) ELSE Zero
        mu1 == IF w1 > 0 THEN Frac(sum1, w1) ELSE Zero
    IN  [w0 |-> Ratio(w0, total_pixels), w1 |-> Ratio(w1, total_pixels),
         mu0 |-> mu0, mu1 |-> mu1]

\* calculate_class_stats.  The loops over the bins add nothing for an empty
\* bin, so the sums are taken over the occupied bins, bins.
calculate_class_stats(histogram, bins, threshold, total_pixels) ==
    LET below == {i \in bins : i < threshold}
        above == {i \in bins : i >= threshold}
        w0 == SumOver(below, histogram)
        sum0 == SumOver(below, [i \in below |-> i * histogram[i]])
        w1 == total_pixels - w0
        sum1 == SumOver(above, [i \in above |-> i * histogram[i]])
        mu0 == IF w0 > 0 THEN Frac(sum0, w0) ELSE Zero
        mu1 == IF w1 > 0 THEN Frac(sum1, w1) ELSE Zero
    IN  [w0 |-> Ratio(w0, total_pixels), w1 |-> Ratio(w1, total_pixels),
         mu0 |-> mu0, mu1 |-> mu1]

\* A slip that lets a later threshold of equal variance replace the best.
improves_or_equals(variance, max_variance) == ~FracGreater(max_variance, variance)

\* variance > max_variance
improves(variance, max_variance) == FracGreater(variance, max_variance)

\* One iteration of the loop of calculate_otsu_threshold: best is the pair
\* of best_threshold and max_variance the iterations before it left.
otsu_step(histogram, bins, total_pixels, threshold, best) ==
    LET stats == calculate_class_stats(histogram, bins, threshold, total_pixels)
        variance == BigFracMul(BigFrac(FracMul(stats.w0, stats.w1)),
                               FracSqDiff(stats.mu0, stats.mu1))
    IN  IF /\ Positive(stats.w0)
           /\ Positive(stats.w1)
           /\ improves(variance, best.max_variance)
        THEN [best_threshold |-> threshold, max_variance |-> variance]
        ELSE best

\* The iterations for the thresholds lo..hi, in rising order: the lower half
\* of the range is run to its end (its best_threshold is a u8) before the
\* upper half starts from what it left.
RECURSIVE otsu_scan(_, _, _, _, _, _)
otsu_scan(histogram, bins, total_pixels, lo, hi, best) ==
    IF lo = hi THEN otsu_step(histogram, bins, total_pixels, lo, best)
    ELSE LET mid == (lo + hi) \div 2
             lower == otsu_scan(histogram, bins, total_pixels, lo, mid, best)
         IN  IF lower.best_threshold \in 0..255
             THEN otsu_scan(histogram, bins, total_pixels, mid + 1, hi, lower)
             ELSE lower

calculate_otsu_threshold(img) ==
    otsu_scan(histogram_of(img), {img.pixels[k] : k \in 1..Len(img.pixels)},
              img.width * img.height, 0, 255,
              [best_threshold |-> 0, max_variance |-> BigFrac(Zero)]).best_threshold

MaxOtsuPixels == 3      \* pixels of an image handed to calculate_otsu_threshold

\* Intensities next to each other, far apart, and the extremes.
OtsuIntensities == {0, 1, 100, 200, 255}

\* Images of one row, the empty one too, and an image of no rows.
OtsuImages ==
    UNION {{[width |-> n, height |-> 1, pixels |-> px] :
               px \in [1..n -> OtsuIntensities]} : n \in 0..MaxOtsuPixels}
        \cup {[width |-> 2, height |-> 0, pixels |-> <<>>]}

OtsuInit ==
    /\ LateIdle
    /\ EvalIdle
    /\ DetectIdle
    /\ RunIdle
    /\ MarkIdle
    /\ ExtractIdle
    /\ CandidateIdle
    /\ AutoIdle
    /\ MatchIdle
    /\ gray_image \in OtsuImages
    /\ otsu_threshold = None

CalculateOtsuThreshold ==
    /\ otsu_threshold = None
    /\ otsu_threshold' = [Some |-> calculate_otsu_threshold(gray_image)]
    /\ UNCHANGED <<gray_image, lateVars, evalVars, detectVars, runVars, markVars,
                   extractVars, candidateVars, autoVars, matchVars>>

OtsuNext == CalculateOtsuThreshold

SpecOtsu == OtsuInit /\ [][OtsuNext]_vars

\* The pixels of the image below t (class 0) and the others (class 1),
\* their numbers and the sums of their intensities.
Class0(t) == {k \in 1..Len(gray_image.pixels) : gray_image.pixels[k] < t}
Class1(t) == {k \in 1..Len(gray_image.pixels) : gray_image.pixels[k] >= t}
ClassSum(class) == SumOver(class, gray_image.pixels)

\* t leaves both classes non-empty.
Splits(t) == Class0(t) # {} /\ Class1(t) # {}

\* The between-class variance w0 * w1 * (mu0 - mu1)^2 of a splitting t is
\* SpreadNum(t) / (n^2 * SpreadDen(t)), n being the number of pixels.
SpreadNum(t) ==
    LET d == ClassSum(Class0(t)) * Cardinality(Class1(t))
                 - ClassSum(Class1(t)) * Cardinality(Class0(t))
    IN  d * d
SpreadDen(t) == Cardinality(Class0(t)) * Cardinality(Class1(t))

\* The variance of t is greater than that of u.
MoreSpread(t, u) == SpreadNum(t) * SpreadDen(u) > SpreadNum(u) * SpreadDen(t)

\* C17: the Otsu threshold is the lowest t in 0..255 that maximizes the
\* between-class variance over the thresholds that leave both classes
\* non-empty; when no threshold does (constant or empty image) it is 0.
C17_LowestMaximizer ==
    otsu_threshold # None =>
        LET t == otsu_threshold.Some
            splitting == {u \in 0..255 : Splits(u)}
        IN  /\ t \in 0..255
            /\ splitting = {} => t = 0
            /\ splitting # {} =>
                /\ t \in splitting
                /\ \A u \in splitting : ~MoreSpread(u, t)
                /\ \A u \in splitting : u < t => MoreSpread(t, u)

\* C17 witness: three pixels 0, 100, 200, whose two splits have the same
\* variance, got the lower threshold; an empty image got 0.
C17_Witness ==
    /\ otsu_threshold # None
    /\ gray_image.pixels = <<0, 100, 200>>
    /\ ~MoreSpread(1, 200) /\ ~MoreSpread(200, 1)
    /\ otsu_threshold.Some = 1

\* The distinct intensities of the image.
Levels == {gray_image.pixels[k] : k \in 1..Len(gray_image.pixels)}

\* C18: for an image with exactly two distinct intensities a < b, the Otsu
\* threshold t satisfies a < t < b, strictly on both sides.
C18_AsStated ==
    (otsu_threshold # None /\ Cardinality(Levels) = 2) =>
        \A a, b \in Levels :
            a < b => (a < otsu_threshold.Some /\ otsu_threshold.Some < b)

\* C18 amended: for an image with at least two distinct intensities, the
\* threshold t lies above the mean of the pixels below t and not above the
\* mean of the others, which it equals exactly when all the others have
\* the intensity t; with exactly two intensities a < b it is a + 1.
C18_BetweenMeans ==
    (otsu_threshold # None /\ Cardinality(Levels) >= 2) =>
        LET t == otsu_threshold.Some IN
        /\ Splits(t)
        /\ ClassSum(Class0(t)) < t * Cardinality(Class0(t))
        /\ t * Cardinality(Class1(t)) <= ClassSum(Class1(t))
        /\ (t * Cardinality(Class1(t)) = ClassSum(Class1(t)))
               = (\A k \in Class1(t) : gray_image.pixels[k] = t)
        /\ Cardinality(Levels) = 2 =>
               \A a, b \in Levels : a < b => t = a + 1

\* C18 witness: an image of the neighbouring intensities 0 and 1 got the
\* threshold 1, the bright intensity itself.
C18_Witness ==
    /\ otsu_threshold # None
    /\ Levels = {0, 1}
    /\ Len(gray_image.pixels) >= 3
    /\ otsu_threshold.Some = 1

--------------------------------------------------------------------------
(* bubble_detection.rs: detect_bubbles_auto (SpecAuto) *)

\* The column and the row of the k-th pixel (from 1) of an image.
PixelX(img, k) == (k - 1) % img.width
PixelY(img, k) == (k - 1) \div img.width

\* The loop of apply_adaptive_threshold.
binarize(img, threshold) ==
    [width |-> img.width, height |-> img.height,
     pixels |-> [k \in 1..Len(img.pixels) |->
                    IF img.pixels[k] < threshold THEN 0 ELSE 255]]

apply_adaptive_threshold(img) == binarize(img, calculate_otsu_threshold(img))

\* Connectivity::Eight
Touching(img, j, k) ==
    /\ PixelX(img, j) - PixelX(img, k) \in {-1, 0, 1}
    /\ PixelY(img, j) - PixelY(img, k) \in {-1, 0, 1}

\* The pixels of foreground connected to the pixels reached so far.
RECURSIVE flood(_, _, _, _)
flood(img, foreground, reached, frontier) ==
    LET next == {k \in foreground \ reached :
                    \E j \in frontier : Touching(img, j, k)}
    IN  IF next = {} THEN reached
        ELSE flood(img, foreground, reached \cup next, next)

SetMin(S) == CHOOSE k \in S : \A j \in S : k <= j

\* The components of foreground, in the order of their first pixels.
RECURSIVE components_of(_, _)
components_of(img, foreground) ==
    IF foreground = {} THEN <<>>
    ELSE LET first == SetMin(foreground)
             component == flood(img, foreground, {first}, {first})
         IN  <<component>> \o components_of(img, foreground \ component)

label_image(img, components) ==
    [k \in 1..Len(img.pixels) |->
        IF img.pixels[k] = 0 THEN 0
        ELSE CHOOSE l \in 1..Len(components) : k \in components[l]]

\* connected_components(&binary_img, Connectivity::Eight, Luma([0u8])): the
\* background gets 0, the components 1, 2, ... in the order of their first
\* pixels.
connected_components(img) ==
    label_image(img, components_of(img, {k \in 1..Len(img.pixels) : img.pixels[k] # 0}))

\* One step of the loop over the labelled pixels.
region_map_step(labeled_image, img, k, region_map) ==
    LET label == labeled_image[k]
        region == IF label \in DOMAIN region_map THEN region_map[label]
                  ELSE BubbleRegion_new
    IN  IF label > 0
        THEN (label :> add_pixel(region, PixelX(img, k), PixelY(img, k))) @@ region_map
        ELSE region_map

\* The loop over the pixels lo..hi, by halves.
RECURSIVE region_map_scan(_, _, _, _, _)
region_map_scan(labeled_image, img, lo, hi, region_map) ==
    IF lo = hi THEN region_map_step(labeled_image, img, lo, region_map)
    ELSE LET mid == (lo + hi) \div 2
             lower == region_map_scan(labeled_image, img, lo, mid, region_map)
         IN  IF DOMAIN lower \subseteq Nat
             THEN region_map_scan(labeled_image, img, mid + 1, hi, lower)
             ELSE lower

\* The region_map of find_bubble_regions when its loop ends.
region_map_of(img) ==
    IF Len(img.pixels) = 0 THEN <<>>
    ELSE region_map_scan(connected_components(apply_adaptive_threshold(img)),
                         img, 1, Len(img.pixels), <<>>)

\* The orders in which the elements of S can come.
Orders(S) ==
    {s \in [1..Cardinality(S) -> S] :
        \A i, j \in 1..Cardinality(S) : s[i] = s[j] => i = j}

\* HashMap::into_values: the values in the order of the hash table, which
\* depends on the keys of its RandomState and is any order.
into_values(region_map) ==
    {[i \in 1..Len(order) |-> region_map[order[i]]] : order \in Orders(DOMAIN region_map)}

\* The vectors find_bubble_regions can return.
find_bubble_regions(img) ==
    {SelectSeq(values, is_likely_bubble) : values \in into_values(region_map_of(img))}

\* A slip that analyzes the pixels of the region and not its bounding box.
calculate_bubble_confidence_of_pixels(img, region) ==
    analyze_bubble_marking(
        [width |-> Len(region.pixels), height |-> 1,
         pixels |-> [k \in 1..Len(region.pixels) |->
                        pixel_at(img, region.pixels[k][1], region.pixels[k][2])]])

calculate_bubble_confidence(img, region) ==
    LET bounds == get_bounds(region)
        start_x == bounds[1]
        start_y == bounds[2]
        end_x == bounds[3]
        end_y == bounds[4]
        w == end_x - start_x
        h == end_y - start_y
    IN  IF start_x >= end_x \/ start_y >= end_y THEN Zero
        ELSE analyze_bubble_marking(
                 [width |-> w, height |-> h,
                  pixels |-> [k \in 1..(w * h) |->
                      LET pixel == get_pixel_checked(img, start_x + ((k - 1) % w),
                                                     start_y + ((k - 1) \div w))
                      IN  IF pixel # None THEN pixel.Some ELSE 0]])

\* The loop of detect_bubbles_auto from the region of index idx on.
RECURSIVE auto_loop(_, _, _, _)
auto_loop(img, bubble_regions, idx, found) ==
    IF idx >= Len(bubble_regions) THEN found
    ELSE LET conf == calculate_bubble_confidence(img, bubble_regions[idx + 1])
         IN  auto_loop(img, bubble_regions, idx + 1,
                 IF conf.num * 2 > conf.den
                 THEN Append(found,
                          [field_label |-> "Auto_Field_" \o ToString(idx),
                           detected_values |-> <<"MARKED">>,
                           confidence |-> conf,
                           is_multi_marked |-> FALSE])
                 ELSE found)

\* The outcomes of detect_bubbles_auto on an image of any size: the regions
\* found and the responses.
detect_bubbles_auto_outcomes(img) ==
    {[bubble_regions |-> regions, responses |-> auto_loop(img, regions, 0, <<>>)] :
        regions \in find_bubble_regions(img)}

MaxAutoRuns == 2        \* calls of detect_bubbles_auto on one image

\* The marks of a scanned page, 7 x 7 pixels each on a background of 0:
\* filled with a dark grey, with a light grey or with white, a light frame
\* around a dark inside, a mark of 3 x 3 pixels, and no mark.
MarkKinds == {"none", "grey", "light", "bright", "frame", "small"}
MarkAt(kind, dx, dy) ==
    CASE kind = "grey" -> 127
      [] kind = "light" -> 128
      [] kind = "bright" -> 255
      [] kind = "frame" -> IF dx \in {0, 6} \/ dy \in {0, 6} THEN 128 ELSE 0
      [] kind = "small" -> IF dx < 3 /\ dy < 3 THEN 127 ELSE 0
      [] OTHER -> 0

\* A page of 15 x 7 pixels with a mark from column 0 and one from column 8.
AutoImage(kinds) ==
    [width |-> 15, height |-> 7,
     pixels |-> [k \in 1..105 |->
                    LET x == (k - 1) % 15
                        y == (k - 1) \div 15
                    IN  IF x = 7 THEN 0
                        ELSE MarkAt(kinds[(x \div 8) + 1], x % 8, y)]]

AutoImages == {AutoImage(kinds) : kinds \in MarkKinds \X MarkKinds}

AutoInit ==
    /\ LateIdle
    /\ EvalIdle
    /\ DetectIdle
    /\ RunIdle
    /\ MarkIdle
    /\ ExtractIdle
    /\ CandidateIdle
    /\ OtsuIdle
    /\ MatchIdle
    /\ scanned_image \in AutoImages
    /\ auto_responses = <<>>

\* One call of detect_bubbles_auto on the image; its outcome is kept.
DetectBubblesAuto ==
    /\ Len(auto_responses) < MaxAutoRuns
    /\ \E outcome \in detect_bubbles_auto_outcomes(scanned_image) :
           auto_responses' = Append(auto_responses, outcome)
    /\ UNCHANGED <<scanned_image, lateVars, evalVars, detectVars, runVars, markVars,
                   extractVars, candidateVars, otsuVars, matchVars>>

AutoNext == DetectBubblesAuto

SpecAuto == AutoInit /\ [][AutoNext]_vars

\* The k-th pixel of the image is in the bounding box of a region.
InBox(region, k) ==
    /\ PixelX(scanned_image, k) \in region.min_x..region.max_x
    /\ PixelY(scanned_image, k) \in region.min_y..region.max_y

\* The mark-confidence of the box of a region, 0.7 * dark / n
\* + 0.3 * (255 - sum / n) / 255, is strictly greater than 0.5.
BoxConfident(region) ==
    LET all == 1..Len(scanned_image.pixels)
        n == Cardinality({k \in all : InBox(region, k)})
        dark == Cardinality({k \in all : InBox(region, k) /\ scanned_image.pixels[k] < 128})
        total == SumSeq([k \in all |->
                            IF InBox(region, k) THEN scanned_image.pixels[k] ELSE 0])
    IN  2 * (7 * 255 * dark + 3 * (255 * n - total)) > 2550 * n

\* The label of the region of index i (from 0).
AutoLabel(i) == "Auto_Field_" \o ToString(i)

\* C15: auto-detection emits a response for a surviving region exactly when
\* the mark-confidence of the region is strictly greater than 0.5; every
\* response has the single value "MARKED", is not multi-marked and is
\* labelled Auto_Field_<i>, i the index of its region among the surviving
\* regions, so the labels of one result are pairwise distinct.
C15_EmittedWhenConfident ==
    \A r \in 1..Len(auto_responses) :
        LET regions == auto_responses[r].bubble_regions
            found == auto_responses[r].responses
        IN  /\ \A i \in 1..Len(regions) :
                   BoxConfident(regions[i])
                       = (\E n \in 1..Len(found) : found[n].field_label = AutoLabel(i - 1))
            /\ \A n \in 1..Len(found) :
                   /\ found[n].detected_values = <<"MARKED">>
                   /\ ~found[n].is_multi_marked
                   /\ \E i \in 1..Len(regions) : found[n].field_label = AutoLabel(i - 1)
            /\ \A n, m \in 1..Len(found) :
                   found[n].field_label = found[m].field_label => n = m

\* C15 witness: of two surviving regions the first was not confident and
\* the second was emitted, as Auto_Field_1.
C15_Witness ==
    /\ Len(auto_responses) >= 1
    /\ Len(auto_responses[1].bubble_regions) = 2
    /\ ~BoxConfident(auto_responses[1].bubble_regions[1])
    /\ BoxConfident(auto_responses[1].bubble_regions[2])
    /\ Len(auto_responses[1].responses) = 1
    /\ auto_responses[1].responses[1].field_label = "Auto_Field_1"
    /\ auto_responses[1].responses[1].detected_values = <<"MARKED">>

\* C16: detection is a pure function of its inputs: two runs of
\* auto-detection on the same image return identical response lists (the
\* same labels attached to the same regions, the same values, the same
\* order).
C16_AsStated ==
    \A r, q \in 1..Len(auto_responses) :
        auto_responses[r].responses = auto_responses[q].responses

--------------------------------------------------------------------------
(* alignment.rs: find_template_match, calculate_normalized_correlation
   (SpecMatch, SpecNcc) *)

\* The template that find_template_match copies out of the image.
template_of(img, region) ==
    LET w == region[3]
        h == region[4]
    IN  [width |-> w, height |-> h,
         pixels |-> [k \in 1..(w * h) |->
             LET pixel == get_pixel_checked(img, region[1] + ((k - 1) % w),
                                            region[2] + ((k - 1) \div w))
             IN  IF pixel # None THEN pixel.Some ELSE 0]]

\* A correlation is num / sqrt(sq), sq > 0; 0.0 is 0 / sqrt(1).
ZeroCorrelation == [num |-> 0, sq |-> 1]

\* The correlation of a template with the patch of the image at (x, y),
\* without the test of the bounds.  With n the number of pixels,
\* numerator * n = n * sum_product - sum_template * sum_image and
\* (denominator * n)^2 = (n * sum_template_sq - sum_template^2)
\*                        * (n * sum_image_sq - sum_image^2).
correlation_at(img, patch, x, y) ==
    LET n == patch.width * patch.height
        template_val == patch.pixels
        image_val == [k \in 1..n |->
                        pixel_at(img, x + ((k - 1) % patch.width),
                                 y + ((k - 1) \div patch.width))]
        sum_template == SumSeq(template_val)
        sum_image == SumSeq(image_val)
        sum_template_sq == SumSeq([k \in 1..n |-> template_val[k] * template_val[k]])
        sum_image_sq == SumSeq([k \in 1..n |-> image_val[k] * image_val[k]])
        sum_product == SumSeq([k \in 1..n |-> template_val[k] * image_val[k]])
        spread == (n * sum_template_sq - sum_template * sum_template)
                      * (n * sum_image_sq - sum_image * sum_image)
    IN  IF spread > 0
        THEN [num |-> n * sum_product - sum_template * sum_image, sq |-> spread]
        ELSE ZeroCorrelation

calculate_normalized_correlation(img, patch, x, y) ==
    IF x + patch.width >= img.width \/ y + patch.height >= img.height
    THEN ZeroCorrelation
    ELSE correlation_at(img, patch, x, y)

\* a > b for correlations
correlation_greater(a, b) ==
    IF a.num <= 0
    THEN b.num < 0 /\ a.num * a.num * b.sq < b.num * b.num * a.sq
    ELSE b.num <= 0 \/ a.num * a.num * b.sq > b.num * b.num * a.sq

\* a > 0.8
above_0_8(a) == a.num > 0 /\ 25 * a.num * a.num > 16 * a.sq

search_radius == 50

\* One iteration of the loops of find_template_match.
search_step(img, patch, region, search_x, search_y, best) ==
    LET value == calculate_normalized_correlation(img, patch, search_x, search_y)
    IN  IF correlation_greater(value, best.best_correlation) /\ above_0_8(value)
        THEN [best_correlation |-> value,
              offset |-> [Some |-> <<search_x - region[1], search_y - region[2]>>]]
        ELSE best

\* The iterations for search_x from x on in the row search_y.
RECURSIVE search_row(_, _, _, _, _, _, _)
search_row(img, patch, region, x, search_end_x, search_y, best) ==
    IF x >= search_end_x THEN best
    ELSE search_row(img, patch, region, x + 1, search_end_x, search_y,
                    search_step(img, patch, region, x, search_y, best))

\* The iterations for search_y from y on.
RECURSIVE search_rows(_, _, _, _, _, _, _, _)
search_rows(img, patch, region, search_start_x, search_end_x, y, search_end_y, best) ==
    IF y >= search_end_y THEN best
    ELSE search_rows(img, patch, region, search_start_x, search_end_x, y + 1,
                     search_end_y,
                     search_row(img, patch, region, search_start_x, search_end_x,
                                y, best))

\* find_template_match: None, or Some((dx, dy)).
find_template_match(img, region) ==
    LET template_x == region[1]
        template_y == region[2]
        template_w == region[3]
        template_h == region[4]
    IN  IF \/ template_x + template_w >= img.width
           \/ template_y + template_h >= img.height
        THEN None
        ELSE search_rows(img, template_of(img, region), region,
                 saturating_sub(template_x, search_radius),
                 Min(template_x + search_radius, img.width - template_w),
                 saturating_sub(template_y, search_radius),
                 Min(template_y + search_radius, img.height - template_h),
                 [best_correlation |-> ZeroCorrelation, offset |-> None]).offset

MaxMatchWidth == 4      \* width of the images searched

MatchIntensities == {0, 1, 2}

\* Images of three rows: any first row, the same row turned by one pixel,
\* and the first row again.
MatchImage(row) ==
    [width |-> Len(row), height |-> 3,
     pixels |-> row \o [k \in 1..Len(row) |-> row[(k % Len(row)) + 1]] \o row]

MatchImages == {MatchImage(row) : row \in [1..MaxMatchWidth -> MatchIntensities]}

\* Template regions inside the image, up to its edges, and reaching one
\* pixel out of it.
MatchRegions(img) ==
    {r \in (0..(img.width - 1)) \X (0..(img.height - 1))
               \X (1..img.width) \X (1..img.height) :
        r[1] + r[3] <= img.width + 1 /\ r[2] + r[4] <= img.height + 1}

MatchInit ==
    /\ LateIdle
    /\ EvalIdle
    /\ DetectIdle
    /\ RunIdle
    /\ MarkIdle
    /\ ExtractIdle
    /\ CandidateIdle
    /\ OtsuIdle
    /\ AutoIdle
    /\ search_image \in MatchImages
    /\ template_region \in MatchRegions(search_image)
    /\ best_offset = None
    /\ ncc_value = None

FindTemplateMatch ==
    /\ best_offset = None
    /\ best_offset' = [returned |-> find_template_match(search_image, template_region)]
    /\ UNCHANGED <<search_image, template_region, ncc_value, lateVars, evalVars, detectVars,
                   runVars, markVars, extractVars, candidateVars, otsuVars, autoVars>>

MatchNext == FindTemplateMatch

SpecMatch == MatchInit /\ [][MatchNext]_vars

\* The template is correlated with the image at the place it was taken from.
CalculateNormalizedCorrelation ==
    /\ ncc_value = None
    /\ ncc_value' =
           [Some |-> calculate_normalized_correlation(search_image,
                         template_of(search_image, template_region),
                         template_region[1], template_region[2])]
    /\ UNCHANGED <<search_image, template_region, best_offset, lateVars, evalVars, detectVars,
                   runVars, markVars, extractVars, candidateVars, otsuVars, autoVars>>

NccNext == CalculateNormalizedCorrelation

SpecNcc == MatchInit /\ [][NccNext]_vars

\* The template region lies inside the image.
InsideImage ==
    /\ template_region[1] + template_region[3] <= search_image.width
    /\ template_region[2] + template_region[4] <= search_image.height

\* The pixels of the template region are not all the same.
NonConstant ==
    \E j, k \in 1..(template_region[3] * template_region[4]) :
        template_of(search_image, template_region).pixels[j]
            # template_of(search_image, template_region).pixels[k]

\* C19: correlating a non-constant patch with the identical patch of the
\* image at offset (0,0) yields NCC = 1, for every patch position and size
\* inside the image, a patch that reaches the right or the bottom edge or
\* covers the whole image included.
C19_AsStated ==
    (ncc_value # None /\ InsideImage /\ NonConstant) =>
        (ncc_value.Some.num > 0
            /\ ncc_value.Some.num * ncc_value.Some.num = ncc_value.Some.sq)

\* Supporting C19: the identity holds for the patches that end before the
\* last column and the last row.
C19_AwayFromEdges ==
    (/\ ncc_value # None
     /\ NonConstant
     /\ template_region[1] + template_region[3] < search_image.width
     /\ template_region[2] + template_region[4] < search_image.height) =>
        (ncc_value.Some.num > 0
            /\ ncc_value.Some.num * ncc_value.Some.num = ncc_value.Some.sq)

\* The places of the search window: within search_radius of the template
\* and with the patch inside the image.
Window ==
    {c \in (0..(search_image.width - template_region[3]))
               \X (0..(search_image.height - template_region[4])) :
        /\ c[1] - template_region[1] \in (-search_radius)..search_radius
        /\ c[2] - template_region[2] \in (-search_radius)..search_radius}

\* The NCC of the template with the patch at a place of the window.
NccAt(c) ==
    correlation_at(search_image, template_of(search_image, template_region), c[1], c[2])

\* C20: template search returns the offset of the candidate with the highest
\* NCC in the search window when that NCC is strictly greater than 0.8 and
\* no match otherwise; a constant patch has NCC 0 and never gives a match.
C20_AsStated ==
    (best_offset # None /\ InsideImage) =>
        LET returned == best_offset.returned
            good == {c \in Window : above_0_8(NccAt(c))}
        IN  /\ (returned = None) = (good = {})
            /\ returned # None =>
                   \E c \in good :
                       /\ returned.Some = <<c[1] - template_region[1],
                                            c[2] - template_region[2]>>
                       /\ \A d \in Window : ~correlation_greater(NccAt(d), NccAt(c))
            /\ ~NonConstant => returned = None

\* Supporting C20: among the places the loops of the code visit, the
\* offset returned is that of the first place of the highest NCC, when
\* that NCC is above 0.8, and None otherwise.
C20_OverVisitedPlaces ==
    (/\ best_offset # None
     /\ template_region[1] + template_region[3] < search_image.width
     /\ template_region[2] + template_region[4] < search_image.height) =>
        LET returned == best_offset.returned
            looked_at == {c \in Window :
                           /\ c[1] < search_image.width - template_region[3]
                           /\ c[2] < search_image.height - template_region[4]}
            good == {c \in looked_at : above_0_8(NccAt(c))}
        IN  /\ (returned = None) = (good = {})
            /\ returned # None =>
                   \E c \in good :
                       /\ returned.Some = <<c[1] - template_region[1],
                                            c[2] - template_region[2]>>
                       /\ \A d \in looked_at : ~correlation_greater(NccAt(d), NccAt(c))
            /\ ~NonConstant => returned = None

--------------------------------------------------------------------------
(* lib.rs: a run without image files (SpecRun) *)

\* No entry of the input directory is an image file.
NoImageFile ==
    \A k \in 1..Len(input_files) :
        input_files[k].ext \notin {"jpg", "jpeg", "png", "bmp", "tiff"}

\* The run returned the result of a run without input: not an error,
\* success = false, no processed file, one entry in errors, no file
\* processed and no results.csv or results.json written.
ReturnedNoInput ==
    /\ IsOk(result)
    /\ ~result.Ok.success
    /\ result.Ok.processed_files = <<>>
    /\ Len(result.Ok.errors) = 1
    /\ task_order = <<>>
    /\ processed_files = <<>>
    /\ output.csv = None
    /\ output.json = None

--------------------------------------------------------------------------
(* evaluation.rs: reports under the default scoring (SpecEval) *)

\* 0 <= p <= 100 for a fraction p.
IsPercent(p) == p.den > 0 /\ p.num >= 0 /\ p.num <= 100 * p.den

\* C29: with the default scoring configuration (correct 1.0, incorrect
\* -0.25, unmarked 0.0, no custom variants), every evaluation report and
\* every batch report has total_score <= max_possible_score and
\* 0 <= percentage <= 100.
C29_DefaultScoringBounds ==
    scoring_config = [default_correct |-> 100, default_incorrect |-> -25,
                      default_unmarked |-> 0, custom_variants |-> <<>>] =>
        /\ report # None =>
            /\ report.total_score <= report.max_possible_score
            /\ IsPercent(report.percentage)
        /\ batch_report # None =>
            /\ batch_report.total_score <= batch_report.max_possible_score
            /\ IsPercent(batch_report.average_percentage)
            /\ \A i \in 1..Len(batch_report.individual_reports) :
                /\ batch_report.individual_reports[i].total_score
                       <= batch_report.individual_reports[i].max_possible_score
                /\ IsPercent(batch_report.individual_reports[i].percentage)

\* C29 witness: under the default scoring a report of wrong answers only
\* has a negative total and the percentage 0, and a batch report exists.
C29_Witness ==
    /\ scoring_config = default_scoring_config
    /\ report # None
    /\ report.total_score < 0
    /\ report.max_possible_score > 0
    /\ report.percentage = Zero
    /\ batch_report # None
    /\ batch_report.total_files >= 1

--------------------------------------------------------------------------
(* evaluation.rs: generate_statistics (SpecStats) *)

FieldStatistics_new ==
    [total_responses |-> 0, correct_responses |-> 0, accuracy |-> Zero,
     confidence_sum |-> 0, average_confidence |-> Zero]

\* A slip that counts a response only when it is correct.
stats_step_correct_only(field_stats, field_result) ==
    LET label == field_result.field_label
        stats == IF label \in DOMAIN field_stats THEN field_stats[label]
                 ELSE FieldStatistics_new
    IN  (label :> [stats EXCEPT
                      !.total_responses = IF field_result.is_correct THEN @ + 1 ELSE @,
                      !.correct_responses = IF field_result.is_correct THEN @ + 1 ELSE @,
                      !.confidence_sum = @ + field_result.confidence])
            @@ field_stats

\* The body of the inner loop: the entry of the label, made when missing,
\* counts the response.
stats_step(field_stats, field_result) ==
    LET label == field_result.field_label
        stats == IF label \in DOMAIN field_stats THEN field_stats[label]
                 ELSE FieldStatistics_new
    IN  (label :> [stats EXCEPT
                      !.total_responses = @ + 1,
                      !.correct_responses = IF field_result.is_correct THEN @ + 1 ELSE @,
                      !.confidence_sum = @ + field_result.confidence])
            @@ field_stats

\* The field results of all reports, in the order the loops visit them.
RECURSIVE all_field_results(_)
all_field_results(reports) ==
    IF reports = <<>> THEN <<>>
    ELSE reports[1].field_results \o all_field_results(Tail(reports))

\* field_stats after the first n of these results.
RECURSIVE stats_loop(_, _)
stats_loop(results, n) ==
    IF n = 0 THEN <<>>
    ELSE stats_step(stats_loop(results, n - 1), results[n])

\* The loop over field_stats.values_mut().
with_averages(stats) ==
    [stats EXCEPT
        !.accuracy = IF stats.total_responses > 0
                     THEN Frac(stats.correct_responses, stats.total_responses)
                     ELSE Zero,
        !.average_confidence = IF stats.total_responses > 0
                               THEN Frac(stats.confidence_sum, stats.total_responses)
                               ELSE Zero]

generate_statistics(reports) ==
    LET results == all_field_results(reports)
        field_stats == stats_loop(results, Len(results))
        total_fields == Len(results)
        total_correct == Cardinality({k \in 1..Len(results) : results[k].is_correct})
    IN  [overall_accuracy |-> IF total_fields > 0 THEN Frac(total_correct, total_fields)
                              ELSE Zero,
         field_statistics |-> [l \in DOMAIN field_stats |-> with_averages(field_stats[l])],
         total_files |-> Len(reports),
         total_fields |-> total_fields]

MaxStatFields == 2      \* field results of one report

\* Field results: the confidence is 0.90 for a correct Q1 and a wrong Q2 and
\* 0.30 for the others.
StatResults ==
    {[field_label |-> l, is_correct |-> c,
      confidence |-> IF (l = "Q1") = c THEN 90 ELSE 30] :
        l \in {"Q1", "Q2"}, c \in BOOLEAN}

StatReports == {[field_results |-> fr] : fr \in SeqsUpTo(StatResults, MaxStatFields)}

StatInit ==
    /\ EarlyIdle
    /\ WebIdle
    /\ KeyIdle
    /\ ContourIdle
    /\ AlignIdle
    /\ stat_reports \in SeqsUpTo(StatReports, 2)
    /\ statistics = None

GenerateStatistics ==
    /\ statistics = None
    /\ statistics' = generate_statistics(stat_reports)
    /\ UNCHANGED <<stat_reports, earlyVars, keyVars, contourVars, alignVars, webVars>>

StatNext == GenerateStatistics

SpecStats == StatInit /\ [][StatNext]_vars

\* The places (report, field) of the field results with a label.
ResultsOf(label) ==
    {p \in (1..Len(stat_reports)) \X (1..MaxStatFields) :
        /\ p[2] <= Len(stat_reports[p[1]].field_results)
        /\ stat_reports[p[1]].field_results[p[2]].field_label = label}

ResultAt(p) == stat_reports[p[1]].field_results[p[2]]

CorrectOf(label) == {p \in ResultsOf(label) : ResultAt(p).is_correct}

\* C22: generate_statistics yields, for every field label, total_responses
\* = the number of field results with that label, correct_responses = the
\* number of those that are correct (so correct <= total and accuracy =
\* correct / total) and confidence_sum = the sum of their confidences; the
\* total_responses of all labels sum to total_fields, and overall_accuracy
\* = (all correct results) / total_fields, or 0 when there are none.
C22_Statistics ==
    statistics # None =>
        LET labels == {"Q1", "Q2"}
            fs == statistics.field_statistics
            all == UNION {ResultsOf(l) : l \in labels}
            correct == UNION {CorrectOf(l) : l \in labels}
        IN  /\ DOMAIN fs = {l \in labels : ResultsOf(l) # {}}
            /\ \A l \in DOMAIN fs :
                /\ fs[l].total_responses = Cardinality(ResultsOf(l))
                /\ fs[l].correct_responses = Cardinality(CorrectOf(l))
                /\ fs[l].correct_responses <= fs[l].total_responses
                /\ fs[l].accuracy.den > 0
                /\ fs[l].accuracy.num * fs[l].total_responses
                       = fs[l].correct_responses * fs[l].accuracy.den
                /\ fs[l].confidence_sum
                       = SumOver(ResultsOf(l),
                                 [p \in ResultsOf(l) |-> ResultAt(p).confidence])
            /\ statistics.total_fields = Cardinality(all)
            /\ SumOver(DOMAIN fs, [l \in DOMAIN fs |-> fs[l].total_responses])
                   = statistics.total_fields
            /\ IF all = {} THEN statistics.overall_accuracy = Zero
               ELSE /\ statistics.overall_accuracy.den > 0
                    /\ statistics.overall_accuracy.num * Cardinality(all)
                           = Cardinality(correct) * statistics.overall_accuracy.den

\* C22 witness: two reports with three results for Q1, two of them correct,
\* and one wrong result for Q2.
C22_Witness ==
    /\ statistics # None
    /\ Len(stat_reports) = 2
    /\ "Q1" \in DOMAIN statistics.field_statistics
    /\ "Q2" \in DOMAIN statistics.field_statistics
    /\ statistics.field_statistics["Q1"].total_responses = 3
    /\ statistics.field_statistics["Q1"].correct_responses = 2
    /\ statistics.field_statistics["Q1"].confidence_sum = 210
    /\ statistics.field_statistics["Q2"].accuracy = Zero
    /\ statistics.overall_accuracy = [num |-> 1, den |-> 2]

--------------------------------------------------------------------------
(* evaluation.rs: load_answer_key and parse_csv_answer_key (SpecKey) *)

\* csv::Reader::from_reader(..).records() over the rows of a table. The
\* reader is built with the defaults of the csv crate: the first row is the
\* header row and is not among the records, and a row whose number of
\* columns differs from the first row's is an error (the reader is not
\* flexible).
records(rows) ==
    [k \in 1..(IF rows = <<>> THEN 0 ELSE Len(rows) - 1) |->
        IF Len(rows[k + 1]) = Len(rows[1])
        THEN [Ok |-> rows[k + 1]]
        ELSE [Err |-> "UnequalLengths"]]

\* record.iter().skip(1).filter(|s| !s.is_empty()).collect()
RECURSIVE non_empty(_)
non_empty(cells) ==
    IF cells = <<>> THEN <<>>
    ELSE IF cells[1] = "" THEN non_empty(Tail(cells))
    ELSE <<cells[1]>> \o non_empty(Tail(cells))

\* The for loop of parse_csv_answer_key from record n on.
RECURSIVE parse_loop(_, _, _)
parse_loop(recs, n, key) ==
    IF n > Len(recs) THEN [Ok |-> key]
    ELSE IF "Err" \in DOMAIN recs[n] THEN [Err |-> "Failed to read CSV record"]
    ELSE LET record == recs[n].Ok
         IN  IF Len(record) >= 2
             THEN parse_loop(recs, n + 1,
                             (record[1] :> non_empty(Tail(record))) @@ key)
             ELSE parse_loop(recs, n + 1, key)

parse_csv_answer_key(rows) == parse_loop(records(rows), 1, <<>>)

\* The file holds a delimited table, which is no JSON object.
load_answer_key(file) ==
    IF file.extension = "json" THEN [Err |-> "Failed to parse JSON answer key"]
    ELSE parse_csv_answer_key(file.rows)

MaxTableRows == 2       \* rows of an answer key table

\* A row is a field label followed by up to two columns.
TableRows ==
    {<<l>> \o cells : l \in {"Q1", "Q2"}, cells \in SeqsUpTo({"", "A", "B"}, 2)}

KeyFiles ==
    [extension : {"csv", "json"}, rows : SeqsUpTo(TableRows, MaxTableRows)]

KeyInit ==
    /\ EarlyIdle
    /\ WebIdle
    /\ StatIdle
    /\ ContourIdle
    /\ AlignIdle
    /\ key_file \in KeyFiles
    /\ loaded_key = None

LoadAnswerKey ==
    /\ loaded_key = None
    /\ loaded_key' = load_answer_key(key_file)
    /\ UNCHANGED <<key_file, earlyVars, statVars, contourVars, alignVars, webVars>>

KeyNext == LoadAnswerKey

SpecKey == KeyInit /\ [][KeyNext]_vars

\* The rows of the table that have at least two columns and a given label.
KeyRowsOf(label) ==
    {k \in 1..Len(key_file.rows) :
        Len(key_file.rows[k]) >= 2 /\ key_file.rows[k][1] = label}

\* C24: loading an answer key from a delimited table yields a map in which
\* every row of the table that has at least two columns contributes an
\* entry from its first column to the list of its remaining non-empty
\* columns in column order; when a label occurs in several rows the last
\* row wins.
C24_AsStated ==
    (loaded_key # None /\ key_file.extension # "json") =>
        /\ "Ok" \in DOMAIN loaded_key
        /\ DOMAIN loaded_key.Ok = {l \in {"Q1", "Q2"} : KeyRowsOf(l) # {}}
        /\ \A l \in DOMAIN loaded_key.Ok :
               LET last == CHOOSE k \in KeyRowsOf(l) : \A j \in KeyRowsOf(l) : j <= k
               IN  loaded_key.Ok[l] = non_empty(Tail(key_file.rows[last]))

--------------------------------------------------------------------------
(* alignment.rs: find_contours and trace_contour (SpecContours) *)

MinContourLen == 50     \* contour.len() > 50

\* The index (from 1) in img.pixels of the pixel at (x, y).
IndexOf(img, px) == px[2] * img.width + px[1] + 1

\* The offsets (dx, dy) in the order of the two neighbour loops.
NeighbourOffsets ==
    <<<<-1, -1>>, <<0, -1>>, <<1, -1>>, <<-1, 0>>, <<1, 0>>, <<-1, 1>>, <<0, 1>>, <<1, 1>>>>

\* What the neighbour loops push for the pixel (x, y): the neighbours inside
\* the image that are on and not visited, in loop order.
pushed(img, seen, px) ==
    LET around == [i \in 1..8 |-> <<px[1] + NeighbourOffsets[i][1],
                                    px[2] + NeighbourOffsets[i][2]>>]
    IN  SelectSeq(around,
                  LAMBDA n : /\ n[1] >= 0 /\ n[1] < img.width
                             /\ n[2] >= 0 /\ n[2] < img.height
                             /\ pixel_at(img, n[1], n[2]) = 255
                             /\ n \notin seen)

\* A slip that leaves out the test of the visited matrix after the pop.
already_visited_never(seen, px) == FALSE

\* if visited[y][x] { continue; }
already_visited(seen, px) == px \in seen

\* One iteration of the while loop of trace_contour: the state after the
\* pop of the last called of the stack.
trace_iteration(img, st) ==
    LET top == st.stack[Len(st.stack)]
        rest == SubSeq(st.stack, 1, Len(st.stack) - 1)
    IN  IF already_visited(st.visited, top)
        THEN [st EXCEPT !.stack = rest]
        ELSE [stack |-> rest \o pushed(img, st.visited \cup {top}, top),
              visited |-> st.visited \cup {top},
              contour |-> Append(st.contour, top)]

\* A slip that keeps a contour of exactly 50 pixels.
keeps_at_least(traced) == Len(traced) >= MinContourLen

\* if contour.len() > 50
keeps(traced) == Len(traced) > MinContourLen

\* The two for loops of find_contours from the pixel with row-major number
\* from (counted from 0) on: the number of the next pixel that is on and
\* not visited, or the number of pixels when there is none.
next_start(img, seen, from) ==
    LET size == img.width * img.height
        open == {k \in from..(size - 1) :
                    /\ img.pixels[k + 1] = 255
                    /\ <<k % img.width, k \div img.width>> \notin seen}
    IN  IF open = {} THEN size ELSE CHOOSE k \in open : \A j \in open : k <= j

MaxMaskWidth == 3       \* width of the small masks (their height is 2)

SmallMasks ==
    {[width |-> MaxMaskWidth, height |-> 2, pixels |-> p] :
        p \in [1..(2 * MaxMaskWidth) -> {0, 255}]}

\* A mask of rows that are on from the left edge for a given run.
RunMask(w, runs) ==
    [width |-> w, height |-> Len(runs),
     pixels |-> [k \in 1..(w * Len(runs)) |->
                    IF (k - 1) % w < runs[((k - 1) \div w) + 1] THEN 255 ELSE 0]]

\* Masks with components of 49 to 52 pixels, alone and next to another.
LargeMasks ==
    LET r == (MinContourLen \div 2) + 1
    IN  {RunMask(r, runs) :
            runs \in {<<r, r>>, <<r, r - 1>>, <<r - 1, r - 1>>, <<r, r - 2>>,
                      <<r - 1, r - 2>>, <<r - 1, r - 1, 0, r, r - 1>>}}

ContourInit ==
    /\ EarlyIdle
    /\ WebIdle
    /\ StatIdle
    /\ KeyIdle
    /\ AlignIdle
    /\ \/ /\ called = "find_contours"
          /\ binary \in SmallMasks \cup LargeMasks
          /\ stack = <<>>
          /\ phase = "scan"
       \/ /\ called = "trace_contour"
          /\ binary \in SmallMasks
          /\ \E x \in 0..(MaxMaskWidth - 1), y \in 0..1 : stack = <<<<x, y>>>>
          /\ phase = "trace"
    /\ visited = {}
    /\ contour = <<>>
    /\ contours = <<>>
    /\ scan_pos = 0

\* find_contours: the for loops up to the next call of trace_contour, or to
\* their end and the return of the contours.
FindContoursScan ==
    /\ called = "find_contours"
    /\ phase = "scan"
    /\ scan_pos' = next_start(binary, visited, scan_pos)
    /\ IF scan_pos' = binary.width * binary.height
       THEN /\ phase' = "returned"
            /\ UNCHANGED stack
       ELSE /\ phase' = "trace"
            /\ stack' = <<<<scan_pos' % binary.width, scan_pos' \div binary.width>>>>
    /\ contour' = <<>>
    /\ UNCHANGED <<called, binary, visited, contours, earlyVars, statVars, keyVars, alignVars, webVars>>

\* trace_contour: one iteration of the while loop.
TracePop ==
    /\ phase = "trace"
    /\ stack # <<>>
    /\ \E st \in {trace_iteration(binary, [stack |-> stack, visited |-> visited,
                                           contour |-> contour])} :
          /\ stack' = st.stack
          /\ visited' = st.visited
          /\ contour' = st.contour
    /\ UNCHANGED <<called, binary, phase, contours, scan_pos, earlyVars, statVars, keyVars, alignVars, webVars>>

\* trace_contour: the stack is empty and the contour is returned, to
\* find_contours (which keeps it or not and goes on with its loops) or to
\* the caller.
TraceReturn ==
    /\ phase = "trace"
    /\ stack = <<>>
    /\ IF called = "find_contours"
       THEN /\ contours' = IF keeps(contour) THEN Append(contours, contour) ELSE contours
            /\ scan_pos' = scan_pos + 1
            /\ phase' = "scan"
       ELSE /\ phase' = "returned"
            /\ UNCHANGED <<contours, scan_pos>>
    /\ UNCHANGED <<called, binary, stack, visited, contour, earlyVars, statVars, keyVars, alignVars, webVars>>

ContourNext == FindContoursScan \/ TracePop \/ TraceReturn

SpecContours == ContourInit /\ [][ContourNext]_vars

\* The code runs on: a loop iteration that can be taken is taken.
FairSpecContours == SpecContours /\ WF_vars(ContourNext)

\* The "on" pixels of the mask and its 8-connected components, as sets of
\* pixel numbers.
OnPixels == {k \in 1..Len(binary.pixels) : binary.pixels[k] = 255}

Components == Range(components_of(binary, OnPixels))

PixelsOf(traced) == {IndexOf(binary, traced[i]) : i \in 1..Len(traced)}

\* The contours returned are the components in Wanted, each once and whole,
\* and no pixel is twice in a contour.
ReturnsExactly(Wanted) ==
    /\ \A i \in 1..Len(contours) :
          /\ PixelsOf(contours[i]) \in Wanted
          /\ Cardinality(PixelsOf(contours[i])) = Len(contours[i])
          /\ \A j \in 1..Len(contours) :
                i # j => PixelsOf(contours[i]) \cap PixelsOf(contours[j]) = {}
    /\ \A c \in Wanted : \E i \in 1..Len(contours) : PixelsOf(contours[i]) = c

FindContoursReturned == called = "find_contours" /\ phase = "returned"

\* C25 as stated: contour extraction returns exactly the 8-connected
\* components of the "on" pixels that have at least 50 pixels, each whole
\* and once; only components under 50 pixels are discarded.
C25_AsStated ==
    FindContoursReturned =>
        ReturnsExactly({c \in Components : Cardinality(c) >= 50})

\* C25, amended: contour extraction returns exactly the 8-connected
\* components of the "on" pixels that have more than 50 pixels: every
\* returned contour is one whole component, no pixel appears in two
\* contours or twice in one, and only components of 50 pixels or fewer are
\* discarded.
C25_MoreThan50 ==
    FindContoursReturned =>
        ReturnsExactly({c \in Components : Cardinality(c) > 50})

\* C25 witness: of a component of 50 pixels and one of 51 pixels, only the
\* second is returned.
C25_Witness ==
    /\ FindContoursReturned
    /\ \E c \in Components : Cardinality(c) = 50
    /\ Len(contours) = 1
    /\ Len(contours[1]) = 51

\* C26: the flood fill terminates for every mask and start pixel: each
\* pixel is marked visited and appended to the contour at most once, a
\* visited pixel is never expanded again, and the stack eventually empties.
C26_FloodFillTerminates ==
    /\ [](/\ Cardinality(Range(contour)) = Len(contour)
          /\ Range(contour) \subseteq visited)
    /\ [][(phase = "trace" /\ stack # <<>> /\ stack[Len(stack)] \in visited)
             => (visited' = visited /\ contour' = contour
                 /\ stack' = SubSeq(stack, 1, Len(stack) - 1))]_vars
    /\ [](phase = "trace" => <>(stack = <<>> /\ phase = "returned"))

\* C26 witness: a direct call returned the six pixels of a full mask.
C26_Witness ==
    /\ called = "trace_contour"
    /\ phase = "returned"
    /\ stack = <<>>
    /\ Len(contour) = 2 * MaxMaskWidth
    /\ visited = Range(contour)

--------------------------------------------------------------------------
(* alignment.rs: auto_align_using_edges (SpecAlign) *)

\* imageproc::gradients::sobel_gradients over the blurred image: an image
\* of the same size whose pixels are Luma<u16>, one channel each, holding
\* the gradient magnitude.  The blur and the magnitudes are floating point
\* work of the library and are left open here: each pixel may be below or
\* above the threshold of detect_page_edges.
sobel_gradients(img) ==
    {[width |-> img.width, height |-> img.height, pixels |-> p] :
        p \in [1..Len(img.pixels) -> {<<0>>, <<51>>}]}

\* pixel[i] for an index written in the source: the channel, or the panic
\* of the slice index when the pixel has no such channel.
channel(pixel, i) ==
    IF i < Len(pixel) THEN [Ok |-> pixel[i + 1]]
    ELSE [panic |-> "index out of bounds"]

\* The loop of detect_page_edges: magnitude = sqrt(g[0]^2 + g[1]^2), on
\* when magnitude > 50.0, that is when its square exceeds 2500.
detect_page_edges(gradients) ==
    LET reads == [k \in 1..Len(gradients.pixels) |->
                    <<channel(gradients.pixels[k], 0), channel(gradients.pixels[k], 1)>>]
    IN  IF \E k \in 1..Len(reads) : \E i \in 1..2 : "panic" \in DOMAIN reads[k][i]
        THEN [panic |-> "index out of bounds"]
        ELSE [Ok |-> [width |-> gradients.width, height |-> gradients.height,
                      pixels |-> [k \in 1..Len(reads) |->
                                     IF reads[k][1].Ok * reads[k][1].Ok
                                            + reads[k][2].Ok * reads[k][2].Ok > 2500
                                     THEN 255 ELSE 0]]]

\* What find_contours returns for a mask (SpecContours follows its loops):
\* the components it keeps, in the order of their first pixels, each with
\* its pixels in row-major order.
find_contours(img) ==
    LET found == components_of(img, {k \in 1..Len(img.pixels) : img.pixels[k] = 255})
        listed == [c \in 1..Len(found) |->
                      [i \in 1..Cardinality(found[c]) |->
                          LET k == CHOOSE n \in found[c] :
                                       Cardinality({j \in found[c] : j < n}) = i - 1
                          IN  <<PixelX(img, k), PixelY(img, k)>>]]
    IN  SelectSeq(listed, keeps)

\* Some(the corners of the bounding box), or None under four points.
approximate_rectangle(traced) ==
    IF Len(traced) < 4 THEN None
    ELSE LET xs == {traced[i][1] : i \in 1..Len(traced)}
             ys == {traced[i][2] : i \in 1..Len(traced)}
             min_x == CHOOSE v \in xs : \A u \in xs : v <= u
             max_x == CHOOSE v \in xs : \A u \in xs : v >= u
             min_y == CHOOSE v \in ys : \A u \in ys : v <= u
             max_y == CHOOSE v \in ys : \A u \in ys : v >= u
         IN  [Some |-> <<<<min_x, min_y>>, <<max_x, min_y>>,
                         <<max_x, max_y>>, <<min_x, max_y>>>>]

\* The shoelace formula; the corners are whole numbers, the area is a
\* number of halves.
calculate_quadrilateral_area(corners) ==
    IF Len(corners) # 4 THEN Zero
    ELSE LET term(i) == LET j == (i % 4) + 1
                        IN  corners[i][1] * corners[j][2] - corners[j][1] * corners[i][2]
             twice == term(1) + term(2) + term(3) + term(4)
         IN  [num |-> IF twice < 0 THEN -twice ELSE twice, den |-> 2]

\* The loop of find_largest_rectangular_contour from contour n on.
RECURSIVE largest_loop(_, _, _, _)
largest_loop(found, n, best_area, best_contour) ==
    IF n > Len(found) THEN best_contour
    ELSE LET rect == approximate_rectangle(found[n])
         IN  IF rect = None THEN largest_loop(found, n + 1, best_area, best_contour)
             ELSE LET size == calculate_quadrilateral_area(rect.Some)
                  IN  IF size.num * best_area.den > best_area.num * size.den
                      THEN largest_loop(found, n + 1, size, rect)
                      ELSE largest_loop(found, n + 1, best_area, best_contour)

find_largest_rectangular_contour(found) == largest_loop(found, 1, Zero, None)

\* detect_page_corners after detect_page_edges gave the mask.
detect_page_corners(img, mask) ==
    LET page_contour == find_largest_rectangular_contour(find_contours(mask))
    IN  IF page_contour # None THEN page_contour.Some
        ELSE <<<<0, 0>>, <<img.width, 0>>, <<img.width, img.height>>, <<0, img.height>>>>

\* Ok(DynamicImage::ImageLuma8(image.clone()))
correct_perspective(img, corners) == [Ok |-> img]

\* auto_align_using_edges for a grayscale image and the gradient image the
\* library produced for it.
auto_align_using_edges(img, gradients) ==
    LET mask == detect_page_edges(gradients)
    IN  IF "panic" \in DOMAIN mask THEN mask
        ELSE LET corners == detect_page_corners(img, mask.Ok)
             IN  IF Len(corners) = 4 THEN correct_perspective(img, corners)
                 ELSE [Ok |-> img]

MaxAlignWidth == 2      \* width of the images to align (their height is 1 or 2)

AlignImages ==
    UNION {{[width |-> w, height |-> h, pixels |-> p] : p \in [1..(w * h) -> {0, 128, 255}]} :
              w \in 1..MaxAlignWidth, h \in 1..2}

AlignInit ==
    /\ EarlyIdle
    /\ WebIdle
    /\ StatIdle
    /\ KeyIdle
    /\ ContourIdle
    /\ align_input \in AlignImages
    /\ aligned = None

AutoAlignUsingEdges ==
    /\ aligned = None
    /\ \E gradients \in sobel_gradients(align_input) :
          aligned' = auto_align_using_edges(align_input, gradients)
    /\ UNCHANGED <<align_input, earlyVars, statVars, keyVars, contourVars, webVars>>

AlignNext == AutoAlignUsingEdges

SpecAlign == AlignInit /\ [][AlignNext]_vars

\* C21: edge-based auto-alignment returns, for every input image and every
\* detected corner set, an image with the same width and height as the
\* input and the same grayscale pixel values, and never fails.
C21_AsStated ==
    aligned # None =>
        /\ "Ok" \in DOMAIN aligned
        /\ aligned.Ok.width = align_input.width
        /\ aligned.Ok.height = align_input.height
        /\ aligned.Ok.pixels = align_input.pixels

--------------------------------------------------------------------------
(* web_main.rs: the job table (SpecWeb) *)

\* The ids Uuid::new_v4 hands out, one per accepted /process request.
JobIds == {"job-a", "job-b"}

MaxQueries == 2         \* /status requests answered in one run

\* What the spawn_blocking of config.execute() gives: the run's own result,
\* or the join error of a run that panicked.
RunOutcomes == {"Ok(Ok)", "Ok(Err)", "JoinError"}

NotFound == [not_found |-> "Job not found"]

\* ProcessingJob { status: Pending, result: None, error: None, .. }
new_job(id) == [id |-> id, status |-> "Pending", result |-> None, error |-> None]

\* A slip that answers before the job is in the table.
insert_job_later(table, id) == table

\* jobs.insert(job_id.clone(), job)
insert_job(table, id) == (id :> new_job(id)) @@ table

\* A lock that lets everybody in.
lock_free_always(holder) == TRUE

\* state.jobs.lock() returns when nobody holds the mutex.
lock_free(holder) == holder = None

\* A slip that reports a run that returned an error as completed.
outcome_status_ok_always(outcome) ==
    IF outcome \in {"Ok(Ok)", "Ok(Err)"} THEN "Completed" ELSE "Failed"

\* The status each arm of the match writes.
outcome_status(outcome) == IF outcome = "Ok(Ok)" THEN "Completed" ELSE "Failed"

\* The second assignment of each arm: job.result or job.error.
with_outcome(job, outcome) ==
    IF outcome = "Ok(Ok)" THEN [job EXCEPT !.result = [Some |-> "omr_result"]]
    ELSE IF outcome = "Ok(Err)" THEN [job EXCEPT !.error = [Some |-> "e.to_string()"]]
    ELSE [job EXCEPT !.error = [Some |-> "Task join error"]]

\* The response of get_job_status.
status_response(table, id) ==
    IF id \in DOMAIN table
    THEN [job_id |-> table[id].id, status |-> table[id].status,
          result |-> table[id].result, error |-> table[id].error]
    ELSE NotFound

WebInit ==
    /\ EarlyIdle
    /\ StatIdle
    /\ KeyIdle
    /\ ContourIdle
    /\ AlignIdle
    /\ jobs = <<>>
    /\ job_lock = None
    /\ start_pc = [j \in JobIds |-> "idle"]
    /\ task_pc = [j \in JobIds |-> "none"]
    /\ run_result = [j \in JobIds |-> "not run"]
    /\ query_pc = "idle"
    /\ query_job = "none"
    /\ queries_made = 0
    /\ observed = [j \in JobIds |-> "not seen"]
    /\ last_answer = None
    /\ responded = {}

webRest == <<earlyVars, statVars, keyVars, contourVars, alignVars>>

\* start_processing: let mut jobs = state.jobs.lock().unwrap()
StartProcessingLock(j) ==
    /\ start_pc[j] = "idle"
    /\ lock_free(job_lock)
    /\ job_lock' = [kind |-> "start", job |-> j]
    /\ start_pc' = [start_pc EXCEPT ![j] = "locked"]
    /\ UNCHANGED <<jobs, task_pc, run_result, query_pc, query_job, queries_made,
                   observed, last_answer, responded, webRest>>

\* start_processing: the insert, and the guard dropped at the end of the block
StartProcessingInsert(j) ==
    /\ start_pc[j] = "locked"
    /\ jobs' = insert_job(jobs, j)
    /\ job_lock' = None
    /\ start_pc' = [start_pc EXCEPT ![j] = "inserted"]
    /\ UNCHANGED <<task_pc, run_result, query_pc, query_job, queries_made,
                   observed, last_answer, responded, webRest>>

\* start_processing: tokio::spawn of process_omr_job
StartProcessingSpawn(j) ==
    /\ start_pc[j] = "inserted"
    /\ task_pc' = [task_pc EXCEPT ![j] = "spawned"]
    /\ start_pc' = [start_pc EXCEPT ![j] = "spawned"]
    /\ UNCHANGED <<jobs, job_lock, run_result, query_pc, query_job, queries_made,
                   observed, last_answer, responded, webRest>>

\* start_processing: the response with the job id
StartProcessingRespond(j) ==
    /\ start_pc[j] = "spawned"
    /\ responded' = responded \cup {j}
    /\ start_pc' = [start_pc EXCEPT ![j] = "responded"]
    /\ UNCHANGED <<jobs, job_lock, task_pc, run_result, query_pc, query_job,
                   queries_made, observed, last_answer, webRest>>

\* process_omr_job: the first lock
TaskLockFirst(j) ==
    /\ task_pc[j] = "spawned"
    /\ lock_free(job_lock)
    /\ job_lock' = [kind |-> "task", job |-> j]
    /\ task_pc' = [task_pc EXCEPT ![j] = "first block"]
    /\ UNCHANGED <<jobs, start_pc, run_result, query_pc, query_job, queries_made,
                   observed, last_answer, responded, webRest>>

\* process_omr_job: job.status = Processing, and the guard dropped
TaskSetProcessing(j) ==
    /\ task_pc[j] = "first block"
    /\ jobs' = IF j \in DOMAIN jobs
               THEN [jobs EXCEPT ![j].status = "Processing"]
               ELSE jobs
    /\ job_lock' = None
    /\ task_pc' = [task_pc EXCEPT ![j] = "running"]
    /\ UNCHANGED <<start_pc, run_result, query_pc, query_job, queries_made,
                   observed, last_answer, responded, webRest>>

\* process_omr_job: spawn_blocking(move || config.execute()).await returns
TaskRun(j) ==
    /\ task_pc[j] = "running"
    /\ \E outcome \in RunOutcomes :
          run_result' = [run_result EXCEPT ![j] = outcome]
    /\ task_pc' = [task_pc EXCEPT ![j] = "ran"]
    /\ UNCHANGED <<jobs, job_lock, start_pc, query_pc, query_job, queries_made,
                   observed, last_answer, responded, webRest>>

\* process_omr_job: the second lock
TaskLockSecond(j) ==
    /\ task_pc[j] = "ran"
    /\ lock_free(job_lock)
    /\ job_lock' = [kind |-> "task", job |-> j]
    /\ task_pc' = [task_pc EXCEPT ![j] = "second block"]
    /\ UNCHANGED <<jobs, start_pc, run_result, query_pc, query_job, queries_made,
                   observed, last_answer, responded, webRest>>

\* process_omr_job: job.status = Completed or Failed
TaskSetStatus(j) ==
    /\ task_pc[j] = "second block"
    /\ jobs' = IF j \in DOMAIN jobs
               THEN [jobs EXCEPT ![j].status = outcome_status(run_result[j])]
               ELSE jobs
    /\ task_pc' = [task_pc EXCEPT ![j] = "status written"]
    /\ UNCHANGED <<job_lock, start_pc, run_result, query_pc, query_job, queries_made,
                   observed, last_answer, responded, webRest>>

\* process_omr_job: job.result or job.error, and the guard dropped
TaskSetOutcome(j) ==
    /\ task_pc[j] = "status written"
    /\ jobs' = IF j \in DOMAIN jobs
               THEN [jobs EXCEPT ![j] = with_outcome(@, run_result[j])]
               ELSE jobs
    /\ job_lock' = None
    /\ task_pc' = [task_pc EXCEPT ![j] = "done"]
    /\ UNCHANGED <<start_pc, run_result, query_pc, query_job, queries_made,
                   observed, last_answer, responded, webRest>>

\* get_job_status: let jobs = state.jobs.lock().unwrap()
GetJobStatusLock(j) ==
    /\ query_pc = "idle"
    /\ queries_made < MaxQueries
    /\ lock_free(job_lock)
    /\ job_lock' = [kind |-> "query", job |-> j]
    /\ query_pc' = "locked"
    /\ query_job' = j
    /\ queries_made' = queries_made + 1
    /\ UNCHANGED <<jobs, start_pc, task_pc, run_result, observed, last_answer,
                   responded, webRest>>

\* get_job_status: the lookup, the response, and the guard dropped
GetJobStatusAnswer ==
    /\ query_pc = "locked"
    /\ last_answer' = status_response(jobs, query_job)
    /\ observed' = IF last_answer' = NotFound THEN observed
                   ELSE [observed EXCEPT ![query_job] = last_answer'.status]
    /\ job_lock' = None
    /\ query_pc' = "idle"
    /\ UNCHANGED <<jobs, start_pc, task_pc, run_result, query_job, queries_made,
                   responded, webRest>>

TaskStep(j) ==
    \/ TaskLockFirst(j)
    \/ TaskSetProcessing(j)
    \/ TaskRun(j)
    \/ TaskLockSecond(j)
    \/ TaskSetStatus(j)
    \/ TaskSetOutcome(j)

StartStep(j) ==
    \/ StartProcessingLock(j)
    \/ StartProcessingInsert(j)
    \/ StartProcessingSpawn(j)
    \/ StartProcessingRespond(j)

WebNext ==
    \/ \E j \in JobIds : StartStep(j)
    \/ \E j \in JobIds : TaskStep(j)
    \/ \E j \in JobIds : GetJobStatusLock(j)
    \/ GetJobStatusAnswer

SpecWeb == WebInit /\ [][WebNext]_vars

\* A handler that holds the mutex runs on to the end of its block, a
\* spawned task is scheduled, and the OMR run returns or panics.
FairSpecWeb ==
    /\ SpecWeb
    /\ \A j \in JobIds : WF_vars(TaskStep(j))
    /\ \A j \in JobIds : WF_vars(StartProcessingInsert(j))
    /\ WF_vars(GetJobStatusAnswer)

\* A whole record: result iff Completed, error iff Failed.
Whole(job) ==
    /\ (job.result # None) = (job.status = "Completed")
    /\ (job.error # None) = (job.status = "Failed")

\* The process that is inside one of its locked blocks, if any.
InBlock(holder) ==
    \/ /\ holder.kind = "start"
       /\ start_pc[holder.job] = "locked"
    \/ /\ holder.kind = "task"
       /\ task_pc[holder.job] \in {"first block", "second block", "status written"}
    \/ /\ holder.kind = "query"
       /\ query_pc = "locked"
       /\ query_job = holder.job

\* C23: the job table is only read or written while the lock is held, and
\* the lock is never held while a job's OMR processing runs: a status query
\* completes while any job is in Processing, and concurrent start, status
\* and completion steps never observe or produce a partially updated job
\* record.
C23_TableUnderLock ==
    /\ [](/\ job_lock # None => InBlock(job_lock)
          /\ \A h \in [kind : {"start", "task", "query"}, job : JobIds] :
                InBlock(h) => job_lock = h
          /\ \A j \in JobIds : task_pc[j] \in {"running", "ran"} =>
                job_lock # [kind |-> "task", job |-> j]
          /\ (last_answer # None /\ last_answer # NotFound) => Whole(last_answer)
          /\ job_lock = None => \A j \in DOMAIN jobs : Whole(jobs[j]))
    /\ [][/\ jobs' # jobs => (job_lock # None /\ job_lock.kind # "query")
          /\ last_answer' # last_answer => (job_lock # None /\ job_lock.kind = "query")]_vars

\* C23 witness: a query got the record of one job while the OMR run of
\* the other job was under way.
C23_Witness ==
    /\ \E j \in JobIds : task_pc[j] = "running" /\ jobs[j].status = "Processing"
    /\ query_pc = "idle"
    /\ last_answer # None
    /\ last_answer # NotFound
    /\ last_answer.status = "Completed"
    /\ last_answer.result # None

StatusRank(s) ==
    IF s = "not seen" THEN 0
    ELSE IF s = "Pending" THEN 1
    ELSE IF s = "Processing" THEN 2
    ELSE 3

\* C27: every web job moves only along Pending -> Processing -> Completed
\* or Pending -> Processing -> Failed: a Completed or Failed job never
\* changes again, a job is never removed from the table, a status query
\* never observes a status earlier than one it observed before, and at
\* every moment (the table being looked at under its lock) result is
\* present iff the status is Completed and error is present iff Failed.
C27_JobLifecycle ==
    /\ [](\A j \in DOMAIN jobs : job_lock # [kind |-> "task", job |-> j] => Whole(jobs[j]))
    /\ [][\A j \in DOMAIN jobs :
             /\ j \in DOMAIN jobs'
             /\ jobs'[j].status # jobs[j].status =>
                   <<jobs[j].status, jobs'[j].status>> \in
                       {<<"Pending", "Processing">>, <<"Processing", "Completed">>,
                        <<"Processing", "Failed">>}
             /\ (jobs[j].status \in {"Completed", "Failed"} /\ job_lock # [kind |-> "task", job |-> j]) =>
                   jobs'[j] = jobs[j]
             /\ StatusRank(observed'[j]) >= StatusRank(observed[j])
             /\ (observed[j] \in {"Completed", "Failed"}) => observed'[j] = observed[j]]_vars

\* C27 witness: both jobs ended, one Completed and one Failed, and a query
\* saw a job for the second time.
C27_Witness ==
    /\ DOMAIN jobs = JobIds
    /\ \E j \in JobIds : jobs[j].status = "Completed" /\ jobs[j].result # None
    /\ \E j \in JobIds : jobs[j].status = "Failed" /\ jobs[j].error # None
    /\ job_lock = None
    /\ queries_made = MaxQueries
    /\ \E j \in JobIds : observed[j] = "Failed"

\* C28: every job id returned by start_processing is already in the job
\* table when the response is sent, so a later status query for it never
\* answers "Job not found"; and provided the OMR run of the job returns or
\* panics (and the background task is scheduled fairly), the job eventually
\* reaches Completed or Failed.
C28_JobFoundAndFinished ==
    /\ [](responded \subseteq DOMAIN jobs)
    /\ [][(query_pc = "locked" /\ query_pc' = "idle" /\ query_job \in responded)
             => last_answer' # NotFound]_vars
    /\ \A j \in JobIds :
          [](j \in responded =>
                <>(j \in DOMAIN jobs /\ jobs[j].status \in {"Completed", "Failed"}
                   /\ task_pc[j] = "done"))

\* C28 witness: a query for a returned id was answered with its record, and
\* the job ended through the join error of a run that panicked.
C28_Witness ==
    /\ \E j \in responded :
          /\ query_job = j
          /\ query_pc = "idle"
          /\ last_answer # None
          /\ last_answer # NotFound
          /\ run_result[j] = "JoinError"
          /\ jobs[j].status = "Failed"
          /\ jobs[j].error = [Some |-> "Task join error"]

==========================================================================
